---- MODULE Spec2Model ----
(***************************************************************************)
(* State-machine model of the DirectPV device initialization handler       *)
(* (package initrequest), its Device fingerprint (package device) and the  *)
(* hotplug drive matcher (package uevent).                                 *)
(***************************************************************************)
EXTENDS Integers, Sequences, FiniteSets, TLC

(***************************************************************************)
(* Bounds of the model                                                     *)
(***************************************************************************)
\* number of watch events the environment delivers to the handler
MaxEvents == 1
\* number of writes other clients make to the InitRequest object
MaxEnvWrites == 5
\* drives handed to runMatcher
MaxDrives == 2
\* fields of a hotplug payload whose orderings are enumerated
MaxFields == 2
\* messages that arrive at the listener's socket, and their longest length
MaxMsgs == 2
MaxMsgLen == 3
\* os.Getpagesize(), in bytes
PageSize == 2
\* longest holder list and mount point list of a Device whose fingerprint
\* is taken
MaxList == 2
\* steps other clients of the cluster take while the drives are checked
MaxOps == 1

\* calls of client.Init a caller makes
MaxCalls == 2
\* writes other clients make to the Node object
MaxNodeOps == 2

(***************************************************************************)
(* Program constants                                                       *)
(***************************************************************************)
\* retry.DefaultRetry: Steps = 5 attempts of the conflict-retry loop
RetrySteps == 5

\* the handler's own node and one other node of the cluster
nodeID == "node1"
otherNode == "node2"
Nodes == {nodeID, otherNode}

\* worker goroutines of the listener that may call Handle, and the ones that
\* receive events
AllWorkers == {"w1", "w2"}
Workers == {"w1"}

\* the block devices of the host
Sda == "8:0"
Sdb == "8:16"
MajorMinors == {Sda, Sdb}
DevName(mm) == IF mm = Sda THEN "sda" ELSE "sdb"

\* Node names, device names and major:minor numbers are written as the
\* texts they are; all other strings are sequences of bytes.  Bytes gives
\* the bytes of a text.
Bytes(text) ==
  CASE text = "node1" -> <<110, 111, 100, 101, 49>>
    [] text = "node2" -> <<110, 111, 100, 101, 50>>
    [] text = "8:0" -> <<56, 58, 48>>
    [] text = "8:16" -> <<56, 58, 49, 54>>
    [] text = "sda" -> <<115, 100, 97>>
    [] text = "sdb" -> <<115, 100, 98>>

\* fmt.Sprintf("%v", n) of an unsigned integer: its decimal digits
RECURSIVE FormatUint(_)
FormatUint(n) ==
  IF n < 10 THEN <<48 + n>> ELSE FormatUint(n \div 10) \o <<48 + (n % 10)>>

\* fmt.Sprintf("%v", b) of a bool: "true" or "false"
FormatBool(b) == IF b THEN <<116, 114, 117, 101>> ELSE <<102, 97, 108, 115, 101>>

\* A filesystem UUID is the number of the uuid.New() call that made it; the
\* drive mount directory of UUID u is the path "/" + u.
GetDriveMountDir(fsuuid) == <<47>> \o FormatUint(fsuuid)

\* a mount point made by somebody else: "/mnt"
ForeignMountPoint == <<47, 109, 110, 116>>

\* An error is the list of the messages it is built of; nil is the empty list.
Nil == <<>>
ErrGetMounts == <<"unable get mount points">>
ErrMounted == <<"device mounted">>
ErrMakeFS == <<"unable to format device">>
ErrMount == <<"unable to mount">>
ErrUnmount == <<"unable to unmount">>
ErrSymlink == <<"unable to create symlink">>
ErrMakeMetaDir == <<"unable to create meta directory">>
ErrWriteFile == <<"unable to create meta file">>
ErrCreate == <<"create failed">>
ErrProbe == <<"probe failed">>
ErrConflict == <<"conflict">>
ErrNotFound == <<"not found">>
ErrAPI == <<"api error">>

NoDevice == [name |-> ""]
NoResult == [completed |-> FALSE]

VARIABLES
  \* ---- cluster ----
  store,        \* the InitRequest object: [exists, version, request, response]
  drives,       \* the Drive records created in the cluster
  envWrites,    \* number of writes by other clients so far
  queue,        \* watch events delivered and not yet handled
  nEvents,      \* number of events delivered so far
  \* ---- host ----
  hostDev,      \* majorMinor -> Device snapshot source (or NoDevice)
  hostMounts,   \* set of [majorMinor, name, mountPoint]
  hostFS,       \* majorMinor -> filesystem UUID on the device (0: none)
  hostFiles,    \* set of <<fsuuid, kind>> metadata artifacts
  uuidCount,    \* uuid.New(): number of UUIDs handed out
  \* ---- handler ----
  mutex,        \* handler.mutex: "" or the worker holding it
  pc,           \* worker -> position in Handle
  ev,           \* worker -> the event args being handled
  devs,         \* worker -> the InitDevice list of initDevices
  probed,       \* worker -> probedDevices of initDevices
  pipe,         \* worker -> list of single-device pipelines (initDevice)
  results,      \* worker -> results slice of initDevices
  initResult,   \* worker -> InitResult built by Handle
  attempts,     \* worker -> attempts made by the conflict-retry loop
  fetched,      \* worker -> the object fetched by the current attempt
  hcalls,       \* worker -> calls made by the current Handle invocation
  hret,         \* worker -> what the last Handle invocation returned
  batches,      \* worker -> number of initDevices runs in this invocation
  \* ---- drive matcher (runMatcher) ----
  mDrives,      \* the drives runMatcher is called with
  mStub,        \* whether the matchers answer as the repository's stubs do
  mPc,          \* position in runMatcher
  mIdx,         \* index into matchers of the criterion being applied
  mPos,         \* index into the candidates of the drive being looked at
  mCur,         \* the candidates the current criterion is applied to
  mMatched,     \* matchedDrives of the running match call
  mRet,         \* what runMatcher returned
  mCut,         \* criterion that declared a 100% match (0: none)
  mLast,        \* <<criterion, candidate>> of the last matchFn call
  mAnyMatch,    \* whether some matchFn call answered match = true
  mValid        \* what validateNonHostInfo and validateHostInfo answered

clusterVars == <<store, drives, envWrites, queue, nEvents>>
hostVars == <<hostDev, hostMounts, hostFS, hostFiles, uuidCount>>
handlerVars == <<mutex, pc, ev, devs, probed, pipe, results, initResult, attempts,
                 fetched, hcalls, hret, batches>>

matchVars == <<mDrives, mStub, mPc, mIdx, mPos, mCur, mMatched, mRet, mCut,
               mLast, mAnyMatch, mValid>>

VARIABLES
  \* ---- package uevent: parse and parseUEvent ----
  uPc,          \* "encode", "parse", "parsed" or "event"; "idle" when unused
  uFields,      \* the fields of a hotplug payload, in the order they are sent
  uBuf,         \* the buffer handed to parse / parseUEvent
  uRes,         \* what parse returned
  uEv           \* what parseUEvent returned

ueventVars == <<uPc, uFields, uBuf, uRes, uEv>>

VARIABLES
  \* ---- package uevent: the listener's socket and readMsg ----
  lQueue,       \* the messages pending on the socket, oldest first
  lArrived,     \* every message that arrived at the socket, in order
  lCtxDone,     \* the caller's context is cancelled
  lClosed,      \* l.closeCh is closed
  lPc,          \* position in readMsg: "idle", "peek" or "read"
  lCap,         \* len(buf) of msgPeek's buffer
  lBuf,         \* buf as msgPeek returned it
  lPeekN,       \* n of the last peek of this call
  lReadN,       \* n of the consuming read of this call (0: none)
  lRet,         \* what the last readMsg call returned
  lDelivered,   \* the buffers readMsg returned so far
  lLate         \* a socket call was made after the cancellation

listenerVars == <<lQueue, lArrived, lCtxDone, lClosed, lPc, lCap, lBuf, lPeekN,
                  lReadN, lRet, lDelivered, lLate>>

VARIABLES
  \* ---- package device: ID and ToNodeDevice called on two snapshots ----
  dPc,          \* "start", "one" or "done"; "idle" when unused
  dNode,        \* the node the two snapshots were taken on
  dGiven,       \* <<first, second>>: the snapshots as they were probed
  dDev,         \* the caller's first Device; ID is called on it
  dOther,       \* the caller's second Device; ToNodeDevice is called on it
  dID,          \* what ID returned for the first
  dNodeDev      \* what ToNodeDevice returned for the second

deviceVars == <<dPc, dNode, dGiven, dDev, dOther, dID, dNodeDev>>

VARIABLES
  \* ---- kubectl-directpv: the drives check, the volume fix and reclaim ----
  kDrive,       \* the Drive record of the cluster the tools work on
  kVolumes,     \* the Volume records: name -> [exists, capacity, drive]
  kFlags,       \* the options of the check: [capacity, repair, checkFinalizer]
  kPc,          \* position of checkDrives; "idle" when unused
  kListed,      \* the status the drive had in the list checkDrives iterates
  kGot,         \* the Drive a retried closure has fetched
  kValid,       \* validFinalizers of removeUnexpectedFinalizers
  kAlloc,       \* allocatedCapacity of checkDrives
  kTries,       \* attempts of the retried closure that have failed
  kErr,         \* what checkDrives returned
  kWrote,       \* what the capacity repair wrote, -1 if nothing
  kChanged,     \* another client changed a record after checkDrives listed
  kOps,         \* number of steps other clients have taken
  kRuns,        \* undisturbed runs of removeUnexpectedFinalizers since
                \* another client changed a record
  sPc,          \* position of setCorrectDriveByFSUUID
  sVol,         \* the volume setCorrectDriveByFSUUID has fetched
  sTarget,      \* the drive whose filesystem UUID its host path names
  kStale,       \* the last call of isStaleVolume and what it returned
  kLast,        \* finalizers the last removeUnexpectedFinalizers removed; -1
                \* if none ran since another client changed a record
  kRead         \* the finalizers of the Drive removeUnexpectedFinalizers fetched

ledgerVars == <<kDrive, kVolumes, kFlags, kPc, kListed, kGot, kValid, kAlloc,
                kTries, kErr, kWrote, kChanged, kOps, kRuns, sPc, sVol,
                sTarget, kStale, kLast, kRead>>

VARIABLES
  \* ---- package node: the hotplug Change handler ----
  hPc,          \* "matched", "done"; "idle" when unused
  hDrive,       \* the Drive object the handler was called with
  hResult       \* what Change returned, and the version it updated

changeVars == <<hPc, hDrive, hResult>>

VARIABLES
  \* ---- package device: deniedReason and ProbeDeviceMap ----
  pPc,          \* "start", "denied", "done"; "idle" when unused
  pDevices,     \* what Probe returns: the Devices of the host
  pLookup,      \* what findDriveByFSUUID returns for the first device
  pXFS,         \* what xfs.Probe returns for each device
  pReason,      \* what deniedReason returned for the first device
  pMap          \* what ProbeDeviceMap returned

probeVars == <<pPc, pDevices, pLookup, pXFS, pReason, pMap>>

VARIABLES
  \* ---- package initrequest: Lister.List and Lister.Get ----
  qPc,          \* position of the goroutine of List; "idle" when unused
  qSelector,    \* the names InitRequestNameSelector was called with
  qNames,       \* lister.initRequestNames
  qItems,       \* the InitRequests the label selector matches
  qPages,       \* the pages the listing has yet to return
  qSent,        \* the names of the InitRequests sent on the channel
  qErr,         \* the error sent on the channel
  qIdx          \* index of the loop over the names left

listerVars == <<qPc, qSelector, qNames, qItems, qPages, qSent, qErr, qIdx>>

VARIABLES
  \* ---- package client: Init ----
  initialized,  \* the counter of Init
  driveClient,  \* whether the drive client is set
  volumeClient, \* whether the volume client is set
  iPc,          \* caller -> position in Init
  iBodies,      \* number of runs of the initialization body
  iFound        \* caller -> the clients it found set when Init returned

onceVars == <<initialized, driveClient, volumeClient, iPc, iBodies, iFound>>

VARIABLES
  \* ---- package node: the node handler and Sync ----
  nNode,        \* the Node object of the cluster
  nQueue,       \* the events delivered and not yet handled
  nPc,          \* position of Handle; "idle" when unused
  nEv,          \* the event being handled
  nDevices,     \* the devices Sync has probed
  nTries,       \* attempts of createOrUpdateNode made
  nRet,         \* what the last Handle returned
  nGot,         \* the Node createOrUpdateNode has fetched
  nOps          \* number of steps other clients have taken

nodeVars == <<nNode, nQueue, nPc, nEv, nDevices, nTries, nRet, nGot, nOps>>

moreVars == <<listerVars, onceVars, nodeVars>>

toolVars == <<ledgerVars, changeVars, probeVars, moreVars>>

vars == <<clusterVars, hostVars, handlerVars, matchVars, ueventVars, listenerVars,
          deviceVars, toolVars>>

\* the state outside the initialization handler
nonHandlerVars == <<matchVars, ueventVars, listenerVars, deviceVars, toolVars>>

\* the state outside the drive matcher
nonMatcherVars == <<ueventVars, listenerVars, deviceVars, toolVars>>

\* the state outside the uevent decoder
nonUEventVars == <<clusterVars, hostVars, handlerVars, matchVars, listenerVars,
                  deviceVars, toolVars>>

\* the state outside the listener
nonListenerVars == <<clusterVars, hostVars, handlerVars, matchVars, ueventVars,
                    deviceVars, toolVars>>

\* the state outside the two Device snapshots
nonDeviceVars == <<clusterVars, hostVars, handlerVars, matchVars, ueventVars,
                  listenerVars, toolVars>>

\* the state outside the tools of kubectl-directpv
nonLedgerVars == <<clusterVars, hostVars, handlerVars, matchVars, ueventVars,
                  listenerVars, deviceVars, probeVars, moreVars>>

\* the state outside deniedReason and ProbeDeviceMap
nonProbeVars == <<clusterVars, hostVars, handlerVars, matchVars, ueventVars,
                 listenerVars, deviceVars, ledgerVars, changeVars, moreVars>>

\* the state outside the lister, client.Init and the node handler
nonMoreVars == <<clusterVars, hostVars, handlerVars, matchVars, ueventVars,
                listenerVars, deviceVars, ledgerVars, changeVars, probeVars>>

(***************************************************************************)
(* package device: Device and its fingerprint                              *)
(***************************************************************************)
\* a <= b for strings, as Go compares them: byte by byte
RECURSIVE LessEq(_, _)
LessEq(a, b) ==
  IF a = <<>> THEN TRUE
  ELSE IF b = <<>> THEN FALSE
  ELSE IF Head(a) # Head(b) THEN Head(a) < Head(b)
  ELSE LessEq(Tail(a), Tail(b))

RECURSIVE Insert(_, _)
Insert(x, s) ==
  IF s = <<>> THEN <<x>>
  ELSE IF LessEq(x, Head(s)) THEN <<x>> \o s
  ELSE <<Head(s)>> \o Insert(x, Tail(s))

\* SortStrings leaving the list as it is
SortStrings_Unsorted(s) == s

\* sort.Strings
RECURSIVE SortStrings(_)
SortStrings(s) == IF s = <<>> THEN <<>> ELSE Insert(Head(s), SortStrings(Tail(s)))

\* the strings of a set, in ascending order
RECURSIVE SetToSeq(_)
SetToSeq(S) ==
  IF S = {} THEN <<>>
  ELSE LET x == CHOOSE y \in S : TRUE
       IN Insert(x, SetToSeq(S \ {x}))

\* strings.Join
RECURSIVE Join(_, _)
Join(list, sep) ==
  IF list = <<>> THEN <<>>
  ELSE IF Len(list) = 1 THEN list[1]
  ELSE list[1] \o sep \o Join(Tail(list), sep)

\* A map[string]string of package device is the list of its <<key, value>>
\* entries, the keys all different.
\* the entries of a map in sorted key order
RECURSIVE InsertEntry(_, _)
InsertEntry(e, m) ==
  IF m = <<>> THEN <<e>>
  ELSE IF LessEq(e[1], Head(m)[1]) THEN <<e>> \o m
  ELSE <<Head(m)>> \o InsertEntry(e, Tail(m))

RECURSIVE SortedByKey(_)
SortedByKey(m) ==
  IF m = <<>> THEN <<>> ELSE InsertEntry(Head(m), SortedByKey(Tail(m)))

\* toSlice(m, delim): the pairs of the map, each as key + delim + value, in
\* sorted key order
toSlice(m, delim) ==
  LET entries == SortedByKey(m) IN
  [i \in 1..Len(entries) |-> entries[i][1] \o delim \o entries[i][2]]

\* a map[string]string of no entries
EmptyMap == <<>>

\* a Device snapshot as the prober builds it
Device(mm, size, mountPoints) ==
  [name |-> DevName(mm), majorMinor |-> mm, size |-> size,
   hidden |-> FALSE, removable |-> FALSE, readOnly |-> FALSE,
   partitioned |-> FALSE, holders |-> <<>>, mountPoints |-> mountPoints,
   swapOn |-> FALSE, cdrom |-> FALSE, dmName |-> <<>>, udevData |-> EmptyMap]

\* SortedInPlace without the two sort.Strings calls
SortedInPlace_Unsorted(d) == d

\* what the two sort.Strings calls of Device.ID leave in the arrays of
\* d.Holders and d.MountPoints; the receiver is a copy of the caller's
\* Device, its two slices share their arrays with the caller's
SortedInPlace(d) ==
  [d EXCEPT !.holders = SortStrings(@), !.mountPoints = SortStrings(@)]

\* the keys of deviceMap
Key_node == <<110, 111, 100, 101>>
Key_name == <<110, 97, 109, 101>>
Key_majorminor == <<109, 97, 106, 111, 114, 109, 105, 110, 111, 114>>
Key_size == <<115, 105, 122, 101>>
Key_hidden == <<104, 105, 100, 100, 101, 110>>
Key_removable == <<114, 101, 109, 111, 118, 97, 98, 108, 101>>
Key_readonly == <<114, 101, 97, 100, 111, 110, 108, 121>>
Key_partitioned == <<112, 97, 114, 116, 105, 116, 105, 111, 110, 101, 100>>
Key_holders == <<104, 111, 108, 100, 101, 114, 115>>
Key_mountpoints == <<109, 111, 117, 110, 116, 112, 111, 105, 110, 116, 115>>
Key_swapon == <<115, 119, 97, 112, 111, 110>>
Key_cdrom == <<99, 100, 114, 111, 109>>
Key_dmname == <<100, 109, 110, 97, 109, 101>>
Key_udevdata == <<117, 100, 101, 118, 100, 97, 116, 97>>

\* deviceMap of Device.ID, built after the two lists were sorted
DeviceMapOf(d, node) ==
  LET sd == SortedInPlace(d) IN
  << <<Key_cdrom, FormatBool(sd.cdrom)>>,
     <<Key_dmname, sd.dmName>>,
     <<Key_hidden, FormatBool(sd.hidden)>>,
     <<Key_holders, Join(sd.holders, <<44>>)>>,
     <<Key_majorminor, Bytes(sd.majorMinor)>>,
     <<Key_mountpoints, Join(sd.mountPoints, <<44>>)>>,
     <<Key_name, Bytes(sd.name)>>,
     <<Key_node, Bytes(node)>>,
     <<Key_partitioned, FormatBool(sd.partitioned)>>,
     <<Key_readonly, FormatBool(sd.readOnly)>>,
     <<Key_removable, FormatBool(sd.removable)>>,
     <<Key_size, FormatUint(sd.size)>>,
     <<Key_swapon, FormatBool(sd.swapOn)>>,
     <<Key_udevdata, Join(toSlice(sd.udevData, <<61>>), <<59>>)>> >>

\* stringToHash of Device.ID: the entries of deviceMap as key:value, joined
\* by newlines
StringToHash(d, node) == Join(toSlice(DeviceMapOf(d, node), <<58>>), <<10>>)

\* Device.ID: majorMinor + "$" + base64(sha256(stringToHash)), as the three
\* parts of the concatenation; the digest is taken to be collision free and
\* is represented by the string it hashes
ID(d, node) == <<d.majorMinor, <<36>>, StringToHash(d, node)>>

\* device sizes the host may report, in GiB
Sizes == {1, 2}

\* the snapshot a request was made from: the device unmounted, of size 1
RequestedID(mm) == ID(Device(mm, 1, <<>>), nodeID)

\* what InitDevice lists a request may hold for this node
InitDevice(mm, force) ==
  [name |-> DevName(mm), majorMinor |-> mm, id |-> RequestedID(mm), force |-> force]

\* requests of one device
SingleLists == { <<InitDevice(Sda, TRUE)>> }

\* requests of two devices: two different ones, and the same one twice
BatchLists ==
  { <<InitDevice(Sda, FALSE), InitDevice(Sdb, TRUE)>>,
    <<InitDevice(Sda, TRUE), InitDevice(Sda, TRUE)>> }

\* what the host holds: per device its size, 0 for a device that is absent
HostDevs == [MajorMinors -> {0} \cup Sizes]


(***************************************************************************)
(* Initial state                                                           *)
(***************************************************************************)
NoMatchReturn == [drive |-> "", result |-> ""]
NotValidated == [called |-> FALSE, nonHost |-> FALSE, host |-> FALSE]
NotParsed == [kind |-> "none"]

\* the uevent decoder is not in use
UEventIdle ==
  /\ uPc = "idle"
  /\ uFields = <<>>
  /\ uBuf = <<>>
  /\ uRes = NotParsed
  /\ uEv = NotParsed

\* runMatcher is not running
MatcherIdle ==
  /\ mDrives = <<>>
  /\ mStub = TRUE
  /\ mPc = "idle"
  /\ mIdx = 0
  /\ mPos = 0
  /\ mCur = <<>>
  /\ mMatched = <<>>
  /\ mRet = NoMatchReturn
  /\ mCut = 0
  /\ mLast = <<0, 0>>
  /\ mAnyMatch = FALSE
  /\ mValid = NotValidated

\* Status.Request of the InitRequest: node -> list of InitDevice
RequestMaps(lists) ==
  { [n \in {nodeID} |-> rl] : rl \in lists }
    \cup { [n \in {otherNode} |-> <<InitDevice(Sdb, FALSE)>>] }

EventTypes == {"Add", "Update", "Sync", "Delete"}

NoPipe == [pc |-> "none", err |-> Nil, ret |-> Nil, calls |-> <<>>, failed |-> "",
           fsuuid |-> 0, fresh |-> 0, majorMinor |-> "", name |-> "", size |-> 0,
           force |-> FALSE]
NoEvent == [type |-> ""]
NoReturn == [done |-> FALSE, err |-> Nil]
NoObject == [exists |-> FALSE]

\* Spec.Response of the InitRequest at the start: empty, or holding the result
\* this node wrote when it handled the request before
InitialResponses ==
  { <<>>,
    [n \in {nodeID} |-> [completed |-> TRUE, devices |-> <<>>, error |-> ErrProbe]] }

InitHandlerVars(lists, hostDevs) ==
  /\ \E rm \in RequestMaps(lists), resp \in InitialResponses :
       store = [exists |-> TRUE, version |-> 0, request |-> rm, response |-> resp]
  /\ drives = {}
  /\ envWrites = 0
  /\ queue = {}
  /\ nEvents = 0
  /\ hostDev \in hostDevs
  /\ hostMounts = {}
  /\ hostFS = [mm \in MajorMinors |-> 0]
  /\ hostFiles = {}
  /\ uuidCount = 0
  /\ mutex = ""
  /\ pc = [w \in AllWorkers |-> "idle"]
  /\ ev = [w \in AllWorkers |-> NoEvent]
  /\ devs = [w \in AllWorkers |-> <<>>]
  /\ probed = [w \in AllWorkers |-> <<>>]
  /\ pipe = [w \in AllWorkers |-> <<>>]
  /\ results = [w \in AllWorkers |-> <<>>]
  /\ initResult = [w \in AllWorkers |-> NoResult]
  /\ attempts = [w \in AllWorkers |-> 0]
  /\ fetched = [w \in AllWorkers |-> NoObject]
  /\ hcalls = [w \in AllWorkers |-> <<>>]
  /\ hret = [w \in AllWorkers |-> NoReturn]
  /\ batches = [w \in AllWorkers |-> 0]

NoMsgReturn == [done |-> FALSE, err |-> "", buf |-> <<>>]

\* a listener nobody reads from, its socket empty
ListenerIdle ==
  /\ lQueue = <<>>
  /\ lArrived = <<>>
  /\ lCtxDone = FALSE
  /\ lClosed = FALSE
  /\ lPc = "idle"
  /\ lCap = 0
  /\ lBuf = <<>>
  /\ lPeekN = 0
  /\ lReadN = 0
  /\ lRet = NoMsgReturn
  /\ lDelivered = <<>>
  /\ lLate = FALSE

\* no Device snapshot a fingerprint is taken of
DeviceIdle ==
  /\ dPc = "idle"
  /\ dNode = nodeID
  /\ dGiven = <<>>
  /\ dDev = <<>>
  /\ dOther = <<>>
  /\ dID = <<>>
  /\ dNodeDev = <<>>

\* no drive check, volume fix or reclaim under way
LedgerIdle ==
  /\ kDrive = Nil
  /\ kVolumes = <<>>
  /\ kFlags = Nil
  /\ kPc = "idle"
  /\ kListed = Nil
  /\ kGot = Nil
  /\ kValid = <<>>
  /\ kAlloc = 0
  /\ kTries = 0
  /\ kErr = Nil
  /\ kWrote = -1
  /\ kChanged = FALSE
  /\ kOps = 0
  /\ kRuns = 0
  /\ sPc = "idle"
  /\ sVol = Nil
  /\ sTarget = Nil
  /\ kStale = Nil
  /\ kLast = -1
  /\ kRead = <<>>

\* no hotplug Change under way
ChangeIdle ==
  /\ hPc = "idle"
  /\ hDrive = Nil
  /\ hResult = Nil

\* no device probed for its denied reason or for the device map
ProbeIdle ==
  /\ pPc = "idle"
  /\ pDevices = <<>>
  /\ pLookup = Nil
  /\ pXFS = <<>>
  /\ pReason = <<>>
  /\ pMap = <<>>

\* no listing under way
ListerIdle ==
  /\ qPc = "idle"
  /\ qSelector = <<>>
  /\ qNames = <<>>
  /\ qItems = {}
  /\ qPages = <<>>
  /\ qSent = <<>>
  /\ qErr = Nil
  /\ qIdx = 0

\* no caller of client.Init
OnceIdle ==
  /\ initialized = 0
  /\ driveClient = FALSE
  /\ volumeClient = FALSE
  /\ iPc = <<>>
  /\ iBodies = 0
  /\ iFound = <<>>

\* no node handler
NodeIdle ==
  /\ nNode = Nil
  /\ nQueue = {}
  /\ nPc = "idle"
  /\ nEv = Nil
  /\ nDevices = <<>>
  /\ nTries = 0
  /\ nRet = Nil
  /\ nGot = Nil
  /\ nOps = 0

MoreIdle == ListerIdle /\ OnceIdle /\ NodeIdle

\* nothing but the handler, the matcher, the decoder and the listener
OthersIdle == DeviceIdle /\ LedgerIdle /\ ChangeIdle /\ ProbeIdle

ToolsIdle == LedgerIdle /\ ChangeIdle /\ ProbeIdle /\ MoreIdle

\* the initialization handler at rest
HandlerIdle ==
  /\ InitHandlerVars(SingleLists, {[mm \in MajorMinors |-> 1]})
  /\ store.response = <<>>
  /\ nodeID \in DOMAIN store.request

InitHandler(lists, hostDevs) ==
  InitHandlerVars(lists, hostDevs) /\ MatcherIdle /\ UEventIdle /\ ListenerIdle
    /\ DeviceIdle /\ ToolsIdle

(***************************************************************************)
(* The environment: the watch, other clients of the cluster, the host      *)
(***************************************************************************)
\* the listener delivers an event carrying a snapshot of the object
Notify ==
  /\ nEvents < MaxEvents
  /\ \E t \in EventTypes :
       queue' = queue \cup {[type |-> t, obj |-> store]}
  /\ nEvents' = nEvents + 1
  /\ UNCHANGED <<store, drives, envWrites>>
  /\ UNCHANGED hostVars
  /\ UNCHANGED handlerVars
  /\ UNCHANGED nonHandlerVars

\* another client (the other node's handler) updates the object
EnvWrite ==
  /\ store.exists
  /\ \E w \in AllWorkers : pc[w] = "update"
  /\ envWrites < MaxEnvWrites
  /\ envWrites' = envWrites + 1
  /\ store' = [store EXCEPT
                 !.version = @ + 1,
                 !.response = [n \in DOMAIN @ \cup {otherNode} |->
                                 IF n = otherNode
                                 THEN [completed |-> TRUE, devices |-> <<>>, error |-> Nil]
                                 ELSE @[n]]]
  /\ UNCHANGED <<drives, queue, nEvents>>
  /\ UNCHANGED hostVars
  /\ UNCHANGED handlerVars
  /\ UNCHANGED nonHandlerVars

\* the object is deleted
EnvDelete ==
  /\ store.exists
  /\ \E w \in AllWorkers : pc[w] \in {"get", "update"}
  /\ store' = [store EXCEPT !.exists = FALSE]
  /\ UNCHANGED <<drives, envWrites, queue, nEvents>>
  /\ UNCHANGED hostVars
  /\ UNCHANGED handlerVars
  /\ UNCHANGED nonHandlerVars

\* somebody else mounts the first device at a mount point of their own
EnvMount ==
  /\ hostDev[Sda] # 0
  /\ \E w \in AllWorkers : \E i \in 1..Len(pipe[w]) :
       pipe[w][i].pc = "getMounts" /\ pipe[w][i].majorMinor = Sda
  /\ [majorMinor |-> Sda, name |-> DevName(Sda), mountPoint |-> ForeignMountPoint] \notin hostMounts
  /\ hostMounts' = hostMounts \cup
       {[majorMinor |-> Sda, name |-> DevName(Sda), mountPoint |-> ForeignMountPoint]}
  /\ UNCHANGED <<hostDev, hostFS, hostFiles, uuidCount>>
  /\ UNCHANGED clusterVars
  /\ UNCHANGED handlerVars
  /\ UNCHANGED nonHandlerVars


(***************************************************************************)
(* initRequestEventHandler.Handle: entry                                   *)
(***************************************************************************)
\* the switch on args.Event
Handled(t) == t \in {"Add", "Update", "Sync"}

\* ResponseFound with the early return on a present response left out
ResponseFound_Never(obj) == FALSE

\* _, found := initRequest.Spec.Response[handler.nodeID]
ResponseFound(obj) == nodeID \in DOMAIN obj.response

\* devices, found := initRequest.Status.Request[handler.nodeID]
RequestFound(obj) == nodeID \in DOMAIN obj.request

\* a worker takes an event; events of other types fall out of the switch
HandleStart(w) ==
  /\ pc[w] = "idle"
  /\ \E e \in queue :
       /\ queue' = queue \ {e}
       /\ ev' = [ev EXCEPT ![w] = e]
       /\ IF Handled(e.type)
          THEN /\ pc' = [pc EXCEPT ![w] = "lock"]
               /\ hret' = [hret EXCEPT ![w] = NoReturn]
          ELSE /\ pc' = pc
               /\ hret' = [hret EXCEPT ![w] = [done |-> TRUE, err |-> Nil]]
  /\ hcalls' = [hcalls EXCEPT ![w] = <<>>]
  /\ batches' = [batches EXCEPT ![w] = 0]
  /\ UNCHANGED <<store, drives, envWrites, nEvents>>
  /\ UNCHANGED hostVars
  /\ UNCHANGED <<mutex, devs, probed, pipe, results, initResult, attempts, fetched>>
  /\ UNCHANGED nonHandlerVars

\* Unlocked with Lock never blocking
Unlocked_Always(m) == TRUE

\* handler.mutex.Lock() returns when no other goroutine holds the mutex
Unlocked(m) == m = ""

\* handler.mutex.Lock(), then the two early returns (the deferred Unlock runs
\* with them)
HandleLock(w) ==
  /\ pc[w] = "lock"
  /\ Unlocked(mutex)
  /\ IF ResponseFound(ev[w].obj) \/ ~RequestFound(ev[w].obj)
     THEN /\ pc' = [pc EXCEPT ![w] = "idle"]
          /\ hret' = [hret EXCEPT ![w] = [done |-> TRUE, err |-> Nil]]
          /\ UNCHANGED <<mutex, devs>>
     ELSE /\ pc' = [pc EXCEPT ![w] = "initDevices"]
          /\ mutex' = w
          /\ devs' = [devs EXCEPT ![w] = ev[w].obj.request[nodeID]]
          /\ hret' = hret
  /\ UNCHANGED clusterVars
  /\ UNCHANGED hostVars
  /\ UNCHANGED <<ev, probed, pipe, results, initResult, attempts, fetched, hcalls, batches>>
  /\ UNCHANGED nonHandlerVars

\* return from Handle with the mutex held: the deferred Unlock
Return(w, e) ==
  /\ pc' = [pc EXCEPT ![w] = "idle"]
  /\ mutex' = ""
  /\ hret' = [hret EXCEPT ![w] = [done |-> TRUE, err |-> e]]
  /\ devs' = [devs EXCEPT ![w] = <<>>]
  /\ probed' = [probed EXCEPT ![w] = <<>>]
  /\ pipe' = [pipe EXCEPT ![w] = <<>>]
  /\ results' = [results EXCEPT ![w] = <<>>]

(***************************************************************************)
(* initRequestEventHandler.initDevices                                     *)
(***************************************************************************)
\* mount points of a device in the host's mount table
HostMountPoints(mm) == {r.mountPoint : r \in {x \in hostMounts : x.majorMinor = mm}}

\* handler.getDevices(majorMinorList...) and the probedDevices map built of it
ProbedDevices(list) ==
  [mm \in {m \in {list[i].majorMinor : i \in 1..Len(list)} : hostDev[m] # 0} |->
     Device(mm, hostDev[mm], SetToSeq(HostMountPoints(mm)))]

\* PreCheck without the comparison of fingerprints
PreCheck_NoFingerprint(pd, d) ==
  IF d.majorMinor \notin DOMAIN pd THEN <<"device not found">> ELSE Nil

\* the switch of initDevices: the error recorded without launching a pipeline
PreCheck(pd, d) ==
  IF d.majorMinor \notin DOMAIN pd THEN <<"device not found">>
  ELSE IF ID(pd[d.majorMinor], nodeID) # d.id THEN <<"device state changed">>
  ELSE Nil

\* the goroutine launched for a device that passed the switch; fresh is the
\* value its uuid.New() call is going to return
Launch(d, dev, fresh) ==
  [NoPipe EXCEPT !.pc = "getMounts", !.majorMinor = dev.majorMinor,
                 !.name = dev.name, !.size = dev.size, !.force = d.force,
                 !.fresh = fresh]

\* InitResultOf with Completed left unset
InitResultOf_Incomplete(res, err) ==
  [completed |-> FALSE, devices |-> res, error |-> err]

\* the InitResult Handle builds of what initDevices returned
InitResultOf(res, err) ==
  [completed |-> TRUE, devices |-> res, error |-> err]

InitDevicesProbe(w) ==
  /\ pc[w] = "initDevices"
  /\ hcalls' = [hcalls EXCEPT ![w] = Append(@, "getDevices")]
  /\ batches' = [batches EXCEPT ![w] = @ + 1]
  /\ attempts' = [attempts EXCEPT ![w] = 0]
  /\ \E ok \in BOOLEAN :
       IF ~ok
       THEN /\ results' = [results EXCEPT ![w] = <<>>]
            /\ pipe' = [pipe EXCEPT ![w] = <<>>]
            /\ probed' = probed
            /\ initResult' = [initResult EXCEPT ![w] =
                 InitResultOf(<<>>, ErrProbe)]
            /\ pc' = [pc EXCEPT ![w] = "get"]
       ELSE LET pd == ProbedDevices(devs[w]) IN
            /\ probed' = [probed EXCEPT ![w] = pd]
            /\ results' = [results EXCEPT ![w] =
                 [i \in 1..Len(devs[w]) |->
                    [name |-> devs[w][i].name, error |-> PreCheck(pd, devs[w][i])]]]
            /\ pipe' = [pipe EXCEPT ![w] =
                 [i \in 1..Len(devs[w]) |->
                    IF PreCheck(pd, devs[w][i]) = Nil
                    THEN Launch(devs[w][i], pd[devs[w][i].majorMinor], uuidCount + i)
                    ELSE NoPipe]]
            /\ initResult' = initResult
            /\ pc' = [pc EXCEPT ![w] = "wait"]
  /\ uuidCount' = uuidCount + Len(devs[w])
  /\ UNCHANGED clusterVars
  /\ UNCHANGED <<hostDev, hostMounts, hostFS, hostFiles>>
  /\ UNCHANGED <<mutex, ev, devs, fetched, hret>>
  /\ UNCHANGED nonHandlerVars

\* wg.Wait() returns; Handle builds the InitResult
InitDevicesJoin(w) ==
  /\ pc[w] = "wait"
  /\ \A i \in 1..Len(pipe[w]) : pipe[w][i].pc \in {"none", "done"}
  /\ initResult' = [initResult EXCEPT ![w] = InitResultOf(results[w], Nil)]
  /\ pc' = [pc EXCEPT ![w] = "get"]
  /\ UNCHANGED clusterVars
  /\ UNCHANGED hostVars
  /\ UNCHANGED <<mutex, ev, devs, probed, pipe, results, attempts, fetched, hcalls, hret, batches>>
  /\ UNCHANGED nonHandlerVars


(***************************************************************************)
(* initRequestEventHandler.initDevice: the single-device pipeline          *)
(***************************************************************************)
\* handler.getMounts(): deviceMap (name -> mount points) and majorMinorMap
\* (major:minor -> names) of the host's mount table
GetMountsDeviceMap ==
  [n \in {r.name : r \in hostMounts} |->
     {r.mountPoint : r \in {x \in hostMounts : x.name = n}}]

GetMountsMajorMinorMap ==
  [mm \in {r.majorMinor : r \in hostMounts} |->
     {r.name : r \in {x \in hostMounts : x.majorMinor = mm}}]

\* MountPointsOf with the found test inverted: nothing is collected
MountPointsOf_NotFound(deviceMap, majorMinorMap, mm) == {}

\* the mountPoints list initDevice builds of the two maps
MountPointsOf(deviceMap, majorMinorMap, mm) ==
  IF mm \in DOMAIN majorMinorMap
  THEN UNION {deviceMap[n] : n \in majorMinorMap[mm]}
  ELSE {}

\* NextStage with the mount left out
NextStage_SkipMount(st) ==
  CASE st = "getMounts" -> "makeFS"
    [] st = "makeFS" -> "symlink"
    [] st = "mount" -> "symlink"
    [] st = "symlink" -> "makeMetaDir"
    [] st = "makeMetaDir" -> "writeFile"
    [] st = "writeFile" -> "create"

\* the stage initDevice goes to when a stage succeeded
NextStage(st) ==
  CASE st = "getMounts" -> "makeFS"
    [] st = "makeFS" -> "mount"
    [] st = "mount" -> "symlink"
    [] st = "symlink" -> "makeMetaDir"
    [] st = "makeMetaDir" -> "writeFile"
    [] st = "writeFile" -> "create"

\* DeferRegistered with the defer statement placed before the mount
DeferRegistered_BeforeMount(st) ==
  st \in {"mount", "symlink", "makeMetaDir", "writeFile", "create"}

\* DeferRegistered with the Drive create left out of the deferred unmount
DeferRegistered_NotCreate(st) == st \in {"symlink", "makeMetaDir", "writeFile"}

\* whether the deferred unmount function is registered when initDevice
\* returns from a stage: the defer statement follows the mount
DeferRegistered(st) == st \in {"symlink", "makeMetaDir", "writeFile", "create"}

\* the deferred function: if err == nil { return }
UnmountNeeded(err) == err # Nil

\* the deferred function: err = fmt.Errorf("%w; %v", err, uerr)
JoinErrors(err, uerr) == err \o uerr

\* What initDevice's caller receives once the deferred function has run. The
\* result is unnamed: "return x" stores x in the result before the deferred
\* function runs, and the deferred function assigns the local err only.
ResultAfterDefer(ret, err) == ret

\* the error of the metadata stages
StageError(st) ==
  CASE st = "symlink" -> ErrSymlink
    [] st = "makeMetaDir" -> ErrMakeMetaDir
    [] st = "writeFile" -> ErrWriteFile

\* types.NewDrive(...) with status Ready
NewDrive(p) ==
  [id |-> p.fsuuid, fsuuid |-> p.fsuuid, name |-> p.name, node |-> nodeID,
   status |-> "Ready", totalCapacity |-> p.size]

\* initDevice returns from stage st: err is the local variable, ret the result
Returned(p, st, err, ret) ==
  [p EXCEPT !.err = err, !.ret = ret,
            !.failed = IF ret # Nil THEN st ELSE "",
            !.pc = IF DeferRegistered(st) THEN "defer" ELSE "done"]

\* Step with every goroutine writing the first slot
Step_FirstSlot(w, i, p) ==
  /\ pipe' = [pipe EXCEPT ![w][i] = p]
  /\ results' = IF p.pc = "done" /\ p.ret # Nil
                THEN [results EXCEPT ![w][1].error = p.ret]
                ELSE results

\* a step of pipeline i; the goroutine stores a non-nil error in its slot
Step(w, i, p) ==
  /\ pipe' = [pipe EXCEPT ![w][i] = p]
  /\ results' = IF p.pc = "done" /\ p.ret # Nil
                THEN [results EXCEPT ![w][i].error = p.ret]
                ELSE results

Called(p, st) == [p EXCEPT !.calls = Append(@, st)]

\* stage 1: the mount-conflict check, then uuid.New()
PGetMounts(w, i) ==
  /\ pc[w] = "wait"
  /\ i \in 1..Len(pipe[w])
  /\ pipe[w][i].pc = "getMounts"
  /\ LET p == Called(pipe[w][i], "getMounts") IN
     \E ok \in BOOLEAN :
       IF ~ok
       THEN Step(w, i, Returned(p, "getMounts", ErrGetMounts, ErrGetMounts))
       ELSE IF MountPointsOf(GetMountsDeviceMap, GetMountsMajorMinorMap, p.majorMinor) # {}
       THEN Step(w, i, Returned(p, "getMounts", Nil, ErrMounted))
       ELSE Step(w, i, [p EXCEPT !.fsuuid = p.fresh, !.pc = NextStage("getMounts")])
  /\ UNCHANGED clusterVars
  /\ UNCHANGED hostVars
  /\ UNCHANGED <<mutex, pc, ev, devs, probed, initResult, attempts, fetched, hcalls, hret, batches>>
  /\ UNCHANGED nonHandlerVars

\* stage 2: format
PMakeFS(w, i) ==
  /\ pc[w] = "wait"
  /\ i \in 1..Len(pipe[w])
  /\ pipe[w][i].pc = "makeFS"
  /\ LET p == Called(pipe[w][i], "makeFS") IN
     \E ok \in BOOLEAN :
       IF ok
       THEN /\ hostFS' = [hostFS EXCEPT ![p.majorMinor] = p.fsuuid]
            /\ Step(w, i, [p EXCEPT !.pc = NextStage("makeFS")])
       ELSE /\ hostFS' = hostFS
            /\ Step(w, i, Returned(p, "makeFS", ErrMakeFS, ErrMakeFS))
  /\ UNCHANGED clusterVars
  /\ UNCHANGED <<hostDev, hostMounts, hostFiles, uuidCount>>
  /\ UNCHANGED <<mutex, pc, ev, devs, probed, initResult, attempts, fetched, hcalls, hret, batches>>
  /\ UNCHANGED nonHandlerVars

\* stage 3: mount; the defer statement follows a successful mount
PMount(w, i) ==
  /\ pc[w] = "wait"
  /\ i \in 1..Len(pipe[w])
  /\ pipe[w][i].pc = "mount"
  /\ LET p == Called(pipe[w][i], "mount") IN
     \E ok \in BOOLEAN :
       IF ok
       THEN /\ hostMounts' = hostMounts \cup
                 {[majorMinor |-> p.majorMinor, name |-> p.name,
                   mountPoint |-> GetDriveMountDir(p.fsuuid)]}
            /\ Step(w, i, [p EXCEPT !.pc = NextStage("mount")])
       ELSE /\ hostMounts' = hostMounts
            /\ Step(w, i, Returned(p, "mount", ErrMount, ErrMount))
  /\ UNCHANGED clusterVars
  /\ UNCHANGED <<hostDev, hostFS, hostFiles, uuidCount>>
  /\ UNCHANGED <<mutex, pc, ev, devs, probed, initResult, attempts, fetched, hcalls, hret, batches>>
  /\ UNCHANGED nonHandlerVars

\* stage 4: symlink, makeMetaDir, writeFile
PMeta(w, i) ==
  /\ pc[w] = "wait"
  /\ i \in 1..Len(pipe[w])
  /\ pipe[w][i].pc \in {"symlink", "makeMetaDir", "writeFile"}
  /\ LET st == pipe[w][i].pc
         p == Called(pipe[w][i], st) IN
     \E ok \in BOOLEAN :
       IF ok
       THEN /\ hostFiles' = hostFiles \cup {<<p.fsuuid, st>>}
            /\ Step(w, i, [p EXCEPT !.pc = NextStage(st)])
       ELSE /\ hostFiles' = hostFiles
            /\ Step(w, i, Returned(p, st, StageError(st), StageError(st)))
  /\ UNCHANGED clusterVars
  /\ UNCHANGED <<hostDev, hostMounts, hostFS, uuidCount>>
  /\ UNCHANGED <<mutex, pc, ev, devs, probed, initResult, attempts, fetched, hcalls, hret, batches>>
  /\ UNCHANGED nonHandlerVars

\* stage 5: create the Drive record
PCreate(w, i) ==
  /\ pc[w] = "wait"
  /\ i \in 1..Len(pipe[w])
  /\ pipe[w][i].pc = "create"
  /\ LET p == Called(pipe[w][i], "create") IN
     \E ok \in BOOLEAN :
       IF ok
       THEN /\ drives' = drives \cup {NewDrive(p)}
            /\ Step(w, i, Returned(p, "create", Nil, Nil))
       ELSE /\ drives' = drives
            /\ Step(w, i, Returned(p, "create", ErrCreate,
                                   <<"unable to create Drive CRD">> \o ErrCreate))
  /\ UNCHANGED <<store, envWrites, queue, nEvents>>
  /\ UNCHANGED hostVars
  /\ UNCHANGED <<mutex, pc, ev, devs, probed, initResult, attempts, fetched, hcalls, hret, batches>>
  /\ UNCHANGED nonHandlerVars

\* the deferred function runs as initDevice returns
PDefer(w, i) ==
  /\ pc[w] = "wait"
  /\ i \in 1..Len(pipe[w])
  /\ pipe[w][i].pc = "defer"
  /\ LET p == pipe[w][i] IN
     IF ~UnmountNeeded(p.err)
     THEN /\ Step(w, i, [p EXCEPT !.pc = "done"])
          /\ hostMounts' = hostMounts
     ELSE \E ok \in BOOLEAN :
            LET q == Called(p, "unmount")
                err == IF ok THEN p.err ELSE JoinErrors(p.err, ErrUnmount) IN
            /\ hostMounts' = IF ok
                             THEN {r \in hostMounts : r.mountPoint # GetDriveMountDir(p.fsuuid)}
                             ELSE hostMounts
            /\ Step(w, i, [q EXCEPT !.err = err, !.ret = ResultAfterDefer(p.ret, err),
                                    !.pc = "done"])
  /\ UNCHANGED clusterVars
  /\ UNCHANGED <<hostDev, hostFS, hostFiles, uuidCount>>
  /\ UNCHANGED <<mutex, pc, ev, devs, probed, initResult, attempts, fetched, hcalls, hret, batches>>
  /\ UNCHANGED nonHandlerVars


(***************************************************************************)
(* Handle: the response write under retry.RetryOnConflict                  *)
(***************************************************************************)
\* initRequest.Spec.Response[handler.nodeID] = initResult
SetResponse(obj, r) ==
  [obj EXCEPT !.response =
     [n \in DOMAIN obj.response \cup {nodeID} |->
        IF n = nodeID THEN r ELSE obj.response[n]]]

\* the API server's answer to an Update of obj: optimistic concurrency on the
\* object's version
UpdateAnswer(obj) ==
  IF ~store.exists THEN ErrNotFound
  ELSE IF obj.version # store.version THEN ErrConflict
  ELSE Nil

\* Retriable of a plain call of the closure, no retry
Retriable_Never(err) == FALSE

\* RetryOnConflict retries the errors apierrors.IsConflict holds of
Retriable(err) == err = ErrConflict

\* wait.ExponentialBackoff calls the function at most Steps times
AttemptsLeft(n) == n < RetrySteps

\* the closure: client.InitRequestClient().Get
RetryGet(w) ==
  /\ pc[w] = "get"
  /\ hcalls' = [hcalls EXCEPT ![w] = Append(@, "Get")]
  /\ attempts' = [attempts EXCEPT ![w] = @ + 1]
  /\ \E ok \in BOOLEAN :
       IF ~store.exists
       THEN /\ Return(w, Nil)
            /\ fetched' = fetched
       ELSE IF ~ok
       THEN /\ Return(w, ErrAPI)
            /\ fetched' = fetched
       ELSE /\ fetched' = [fetched EXCEPT ![w] = store]
            /\ pc' = [pc EXCEPT ![w] = "update"]
            /\ UNCHANGED <<mutex, hret, devs, probed, pipe, results>>
  /\ UNCHANGED clusterVars
  /\ UNCHANGED hostVars
  /\ UNCHANGED <<ev, initResult, batches>>
  /\ UNCHANGED nonHandlerVars

\* the closure: set the response entry and Update; RetryOnConflict's decision
RetryUpdate(w) ==
  /\ pc[w] = "update"
  /\ hcalls' = [hcalls EXCEPT ![w] = Append(@, "Update")]
  /\ LET obj == SetResponse(fetched[w], initResult[w])
         answer == UpdateAnswer(obj) IN
     \E ok \in BOOLEAN :
       IF answer = Nil /\ ok
       THEN /\ store' = [obj EXCEPT !.version = @ + 1]
            /\ Return(w, Nil)
       ELSE LET err == IF answer = Nil THEN ErrAPI ELSE answer IN
            /\ store' = store
            /\ IF Retriable(err) /\ AttemptsLeft(attempts[w])
               THEN /\ pc' = [pc EXCEPT ![w] = "get"]
                    /\ UNCHANGED <<mutex, hret, devs, probed, pipe, results>>
               ELSE Return(w, err)
  /\ UNCHANGED <<drives, envWrites, queue, nEvents>>
  /\ UNCHANGED hostVars
  /\ UNCHANGED <<ev, initResult, attempts, fetched, batches>>
  /\ UNCHANGED nonHandlerVars

(***************************************************************************)
(* The specification of the initialization handler                         *)
(***************************************************************************)
Init == InitHandler(SingleLists, {hd \in HostDevs : hd[Sdb] = 1})

Next ==
  \/ Notify
  \/ EnvWrite
  \/ EnvDelete
  \/ EnvMount
  \/ \E w \in Workers : HandleStart(w)
  \/ \E w \in Workers : HandleLock(w)
  \/ \E w \in Workers : InitDevicesProbe(w)
  \/ \E w \in Workers : InitDevicesJoin(w)
  \/ \E w \in Workers, i \in 1..2 : PGetMounts(w, i)
  \/ \E w \in Workers, i \in 1..2 : PMakeFS(w, i)
  \/ \E w \in Workers, i \in 1..2 : PMount(w, i)
  \/ \E w \in Workers, i \in 1..2 : PMeta(w, i)
  \/ \E w \in Workers, i \in 1..2 : PCreate(w, i)
  \/ \E w \in Workers, i \in 1..2 : PDefer(w, i)
  \/ \E w \in Workers : RetryGet(w)
  \/ \E w \in Workers : RetryUpdate(w)

Spec == Init /\ [][Next]_vars

(***************************************************************************)
(* The specification of one batch: one event, requests of two devices, no  *)
(* other client of the InitRequest                                         *)
(***************************************************************************)
InitBatch == InitHandler(BatchLists, HostDevs)

NotifyOnce == nEvents = 0 /\ Notify

NextBatch ==
  \/ NotifyOnce
  \/ EnvMount
  \/ \E w \in Workers : HandleStart(w)
  \/ \E w \in Workers : HandleLock(w)
  \/ \E w \in Workers : InitDevicesProbe(w)
  \/ \E w \in Workers : InitDevicesJoin(w)
  \/ \E w \in Workers, i \in 1..2 : PGetMounts(w, i)
  \/ \E w \in Workers, i \in 1..2 : PMakeFS(w, i)
  \/ \E w \in Workers, i \in 1..2 : PMount(w, i)
  \/ \E w \in Workers, i \in 1..2 : PMeta(w, i)
  \/ \E w \in Workers, i \in 1..2 : PCreate(w, i)
  \/ \E w \in Workers, i \in 1..2 : PDefer(w, i)
  \/ \E w \in Workers : RetryGet(w)
  \/ \E w \in Workers : RetryUpdate(w)

SpecBatch == InitBatch /\ [][NextBatch]_vars

(***************************************************************************)
(* The specification of two workers of the controller calling Handle of    *)
(* one handler: a request of one device that is there as requested, no     *)
(* response yet, no other client; the informer has delivered the Add event *)
(* of the request and, from its cache, an Update or Sync event of the same *)
(* object                                                                  *)
(***************************************************************************)
InitWorkerVars ==
  /\ \E rm \in RequestMaps(SingleLists) :
       store = [exists |-> TRUE, version |-> 0, request |-> rm, response |-> <<>>]
  /\ drives = {}
  /\ envWrites = 0
  /\ \E t \in {"Update", "Sync"} :
       queue = {[type |-> "Add", obj |-> store], [type |-> t, obj |-> store]}
  /\ nEvents = Cardinality(queue)
  /\ hostDev = [mm \in MajorMinors |-> 1]
  /\ hostMounts = {}
  /\ hostFS = [mm \in MajorMinors |-> 0]
  /\ hostFiles = {}
  /\ uuidCount = 0
  /\ mutex = ""
  /\ pc = [w \in AllWorkers |-> "idle"]
  /\ ev = [w \in AllWorkers |-> NoEvent]
  /\ devs = [w \in AllWorkers |-> <<>>]
  /\ probed = [w \in AllWorkers |-> <<>>]
  /\ pipe = [w \in AllWorkers |-> <<>>]
  /\ results = [w \in AllWorkers |-> <<>>]
  /\ initResult = [w \in AllWorkers |-> NoResult]
  /\ attempts = [w \in AllWorkers |-> 0]
  /\ fetched = [w \in AllWorkers |-> NoObject]
  /\ hcalls = [w \in AllWorkers |-> <<>>]
  /\ hret = [w \in AllWorkers |-> NoReturn]
  /\ batches = [w \in AllWorkers |-> 0]

InitWorkers ==
  InitWorkerVars /\ MatcherIdle /\ UEventIdle /\ ListenerIdle /\ DeviceIdle
    /\ ToolsIdle

NextWorkers ==
  \/ \E w \in AllWorkers : HandleStart(w)
  \/ \E w \in AllWorkers : HandleLock(w)
  \/ \E w \in AllWorkers : InitDevicesProbe(w)
  \/ \E w \in AllWorkers : InitDevicesJoin(w)
  \/ \E w \in AllWorkers, i \in 1..2 : PGetMounts(w, i)
  \/ \E w \in AllWorkers, i \in 1..2 : PMakeFS(w, i)
  \/ \E w \in AllWorkers, i \in 1..2 : PMount(w, i)
  \/ \E w \in AllWorkers, i \in 1..2 : PMeta(w, i)
  \/ \E w \in AllWorkers, i \in 1..2 : PCreate(w, i)
  \/ \E w \in AllWorkers, i \in 1..2 : PDefer(w, i)
  \/ \E w \in AllWorkers : RetryGet(w)
  \/ \E w \in AllWorkers : RetryUpdate(w)

SpecWorkers == InitWorkers /\ [][NextWorkers]_vars


(***************************************************************************)
(* package uevent: runMatcher, getMatchingDrives, match                    *)
(***************************************************************************)
\* var matchers = []matchFn{...}
matchers ==
  << "fsUUIDMatcher", "ueventFSUUIDMatcher", "serialNumberMatcher",
     "ueventSerialNumberMatcher", "wwidMatcher", "modelNumberMatcher",
     "vendorMatcher", "partitionNumberMatcher", "dmUUIDMatcher", "mdUUIDMatcher",
     "partitionUUIDMatcher", "partitionTableUUIDMatcher",
     "logicalBlocksizeMatcher", "physicalBlocksizeMatcher", "filesystemMatcher",
     "totalCapacityMatcher", "allocatedCapacityMatcher", "mountMatcher" >>

DriveNames == {"d1", "d2", "d3"}

\* the drives argument of runMatcher: lists of distinct drives
DriveLists ==
  UNION { {l \in [1..n -> DriveNames] : \A i, j \in 1..n : l[i] = l[j] => i = j}
          : n \in 0..MaxDrives }

\* What a matchFn answers for a drive and the device. The matchers of the
\* list are unimplemented and return the zero values (false, false); match
\* takes its matchFn as an argument, any function of that type.
MatchFnAnswers(stub) ==
  IF stub THEN {[match |-> FALSE, cont |-> FALSE]}
  ELSE [match : BOOLEAN, cont : BOOLEAN]

\* match: "if match { if !cont { return []{drive}, false } ..."
IsFullMatch(a) == a.match /\ ~a.cont

\* match: matchedDrives = append(matchedDrives, drive), under "if match"
Appended(matched, drive, a) == IF a.match THEN Append(matched, drive) ELSE matched

\* ChainContinues without the break of getMatchingDrives
ChainContinues_NoBreak(cont, idx) == idx < Len(matchers)

\* getMatchingDrives: the range loop goes on to the next matcher
ChainContinues(cont, idx) == cont /\ idx < Len(matchers)

\* runMatcher: validateNonHostInfo(...) && validateHostInfo(...)
Validated(nonHost, host) == nonHost /\ host

\* RunMatcherResult settling an ambiguity by the first candidate
RunMatcherResult_PickFirst(matched, valid) ==
  IF Len(matched) = 0
  THEN [drive |-> "", result |-> "nomatch"]
  ELSE [drive |-> matched[1], result |-> IF valid THEN "nochange" ELSE "changed"]

\* runMatcher: the switch on len(matchedDrives); valid is the outcome of
\* validateNonHostInfo && validateHostInfo
RunMatcherResult(matched, valid) ==
  IF Len(matched) = 1
  THEN [drive |-> matched[1], result |-> IF valid THEN "nochange" ELSE "changed"]
  ELSE IF Len(matched) = 0
  THEN [drive |-> "", result |-> "nomatch"]
  ELSE [drive |-> "", result |-> "toomanymatches"]

\* getMatchingDrives after match returned (drvs, cont) for matcher mIdx
AfterMatch(drvs, cont) ==
  /\ mCur' = drvs
  /\ mMatched' = <<>>
  /\ IF ChainContinues(cont, mIdx)
     THEN /\ mIdx' = mIdx + 1
          /\ mPos' = 1
          /\ mPc' = "match"
     ELSE /\ mIdx' = mIdx
          /\ mPos' = mPos
          /\ mPc' = "matched"

\* runMatcher calls getMatchingDrives: matchedDrives := drives
GetMatchingDrivesStart ==
  /\ mPc = "idle"
  /\ mPc' = "match"
  /\ mIdx' = 1
  /\ mPos' = 1
  /\ mCur' = mDrives
  /\ mMatched' = <<>>
  /\ UNCHANGED <<mDrives, mStub, mRet, mCut, mLast, mAnyMatch, mValid>>
  /\ UNCHANGED clusterVars
  /\ UNCHANGED hostVars
  /\ UNCHANGED handlerVars
  /\ UNCHANGED nonMatcherVars

\* match: one iteration of "for _, drive := range drives"
MatchEval ==
  /\ mPc = "match"
  /\ mPos <= Len(mCur)
  /\ \E a \in MatchFnAnswers(mStub) :
       /\ mLast' = <<mIdx, mPos>>
       /\ mAnyMatch' = (mAnyMatch \/ a.match)
       /\ IF IsFullMatch(a)
          THEN /\ AfterMatch(<<mCur[mPos]>>, FALSE)
               /\ mCut' = mIdx
          ELSE /\ mMatched' = Appended(mMatched, mCur[mPos], a)
               /\ mPos' = mPos + 1
               /\ UNCHANGED <<mPc, mIdx, mCur, mCut>>
  /\ UNCHANGED <<mDrives, mStub, mRet, mValid>>
  /\ UNCHANGED clusterVars
  /\ UNCHANGED hostVars
  /\ UNCHANGED handlerVars
  /\ UNCHANGED nonMatcherVars

\* match: the range loop is over, "return matchedDrives, true"
MatchReturn ==
  /\ mPc = "match"
  /\ mPos > Len(mCur)
  /\ AfterMatch(mMatched, TRUE)
  /\ UNCHANGED <<mDrives, mStub, mRet, mCut, mLast, mAnyMatch, mValid>>
  /\ UNCHANGED clusterVars
  /\ UNCHANGED hostVars
  /\ UNCHANGED handlerVars
  /\ UNCHANGED nonMatcherVars

\* runMatcher: the switch
RunMatcherSwitch ==
  /\ mPc = "matched"
  /\ \E nonHost, host \in BOOLEAN :
       /\ mRet' = RunMatcherResult(mCur, Validated(nonHost, host))
       /\ mValid' = IF Len(mCur) = 1
                    THEN [called |-> TRUE, nonHost |-> nonHost, host |-> nonHost /\ host]
                    ELSE mValid
  /\ mPc' = "done"
  /\ UNCHANGED <<mDrives, mStub, mIdx, mPos, mCur, mMatched, mCut, mLast, mAnyMatch>>
  /\ UNCHANGED clusterVars
  /\ UNCHANGED hostVars
  /\ UNCHANGED handlerVars
  /\ UNCHANGED nonMatcherVars

\* one call of runMatcher, the initialization handler at rest
InitMatch ==
  /\ HandlerIdle
  /\ UEventIdle
  /\ ListenerIdle
  /\ DeviceIdle /\ ToolsIdle
  /\ mDrives \in DriveLists
  /\ mStub \in BOOLEAN
  /\ mPc = "idle"
  /\ mIdx = 0
  /\ mPos = 0
  /\ mCur = <<>>
  /\ mMatched = <<>>
  /\ mRet = NoMatchReturn
  /\ mCut = 0
  /\ mLast = <<0, 0>>
  /\ mAnyMatch = FALSE
  /\ mValid = NotValidated

NextMatch ==
  \/ GetMatchingDrivesStart
  \/ MatchEval
  \/ MatchReturn
  \/ RunMatcherSwitch

SpecMatch == InitMatch /\ [][NextMatch]_vars


(***************************************************************************)
(* package uevent: parse                                                   *)
(***************************************************************************)
\* A byte string is the sequence of its bytes.
\* the signature "libudev" and its terminating NUL: eight bytes, the magic
\* number follows at index 8
libudev == <<108, 105, 98, 117, 100, 101, 118, 0>>

\* A uint32 is the pair of its 16-bit halves, the high one first.
\* the magic number, 0xfeedcafe
libudevMagic == <<65261, 51966>>

\* the NUL between the fields of the payload
fieldDelimiter == <<0>>

\* bytes.HasPrefix
HasPrefix(s, p) == Len(s) >= Len(p) /\ SubSeq(s, 1, Len(p)) = p

\* binary.BigEndian.Uint32 of the first four bytes of b
Uint32(b) == <<b[1] * 256 + b[2], b[3] * 256 + b[4]>>

\* the first position of byte c in s, 0 when there is none
IndexByte(s, c) ==
  IF \E i \in 1..Len(s) : s[i] = c
  THEN CHOOSE i \in 1..Len(s) : s[i] = c /\ \A j \in 1..(i - 1) : s[j] # c
  ELSE 0

\* bytes.Split(s, sep) for a separator of one byte
RECURSIVE Split(_, _)
Split(s, sep) ==
  LET i == IndexByte(s, sep[1]) IN
  IF i = 0 THEN <<s>>
  ELSE <<SubSeq(s, 1, i - 1)>> \o Split(SubSeq(s, i + 1, Len(s)), sep)

\* strings.SplitN(field, "=", 2)
SplitN2(field) ==
  LET i == IndexByte(field, 61) IN
  IF i = 0 THEN <<field>>
  ELSE <<SubSeq(field, 1, i - 1), SubSeq(field, i + 1, Len(field))>>

\* event[k] = v
Put(event, k, v) ==
  [x \in DOMAIN event \cup {k} |-> IF x = k THEN v ELSE event[x]]

\* eventMap[k]: the zero value for a key that is absent
Lookup(event, k) == IF k \in DOMAIN event THEN event[k] ELSE <<>>

\* SplitN2 splitting a field at its last "="
TokensOf_LastEquals(field) ==
  IF \E i \in 1..Len(field) : field[i] = 61
  THEN LET i == CHOOSE i \in 1..Len(field) :
                  field[i] = 61 /\ \A j \in (i + 1)..Len(field) : field[j] # 61
       IN <<SubSeq(field, 1, i - 1), SubSeq(field, i + 1, Len(field))>>
  ELSE <<field>>

\* the tokens of a field
TokensOf(field) == SplitN2(field)

\* parse: the loop over the fields
RECURSIVE EventOf(_, _)
EventOf(fields, event) ==
  IF fields = <<>> THEN event
  ELSE LET field == Head(fields)
           tokens == TokensOf(field) IN
       IF Len(field) = 0 THEN EventOf(Tail(fields), event)
       ELSE IF Len(tokens) = 1
       THEN EventOf(Tail(fields), Put(event, tokens[1], <<>>))
       ELSE EventOf(Tail(fields), Put(event, tokens[1], tokens[2]))

ParseError(e) == [kind |-> "error", err |-> e, event |-> <<>>]

\* a slice or index expression out of range: the goroutine panics
ParsePanic == [kind |-> "panic", err |-> "index out of range", event |-> <<>>]

\* parse
parse(msg) ==
  IF ~HasPrefix(msg, libudev) THEN ParseError("libudev signature not found")
  ELSE IF Len(msg) < 12 THEN ParsePanic
  ELSE IF Uint32(SubSeq(msg, 9, 12)) # libudevMagic
  THEN ParseError("libudev magic mismatch")
  ELSE IF Len(msg) < 17 THEN ParsePanic
  ELSE LET offset == msg[17] IN
       IF offset < 17 THEN ParseError("payload offset is not more than 17")
       ELSE IF offset > Len(msg) THEN ParseError("payload offset beyond message length")
       ELSE [kind |-> "ok", err |-> "",
             event |-> EventOf(Split(SubSeq(msg, offset + 1, Len(msg)), fieldDelimiter),
                               <<>>)]


(***************************************************************************)
(* package uevent: listener.parseUEvent                                    *)
(***************************************************************************)
\* the keys and values parseUEvent looks at, as byte strings
KeySubsystem == <<83, 85, 66, 83, 89, 83, 84, 69, 77>>
KeyAction == <<65, 67, 84, 73, 79, 78>>
KeyDevPath == <<68, 69, 86, 80, 65, 84, 72>>
KeyMajor == <<77, 65, 74, 79, 82>>
KeyMinor == <<77, 73, 78, 79, 82>>
Block == <<98, 108, 111, 99, 107>>
Add == <<97, 100, 100>>
Change == <<99, 104, 97, 110, 103, 101>>
Remove == <<114, 101, 109, 111, 118, 101>>

\* KnownAction taking every action
KnownAction_Any(a) == TRUE

\* case Add, Change, Remove:
KnownAction(a) == a \in {Add, Change, Remove}

IsDigit(c) == c >= 48 /\ c <= 57

RECURSIVE DigitsValue(_, _)
DigitsValue(s, acc) ==
  IF s = <<>> THEN acc ELSE DigitsValue(Tail(s), acc * 10 + (Head(s) - 48))

\* strconv.Atoi: an optional sign and one or more decimal digits
Atoi(s) ==
  LET signed == s # <<>> /\ s[1] \in {43, 45}
      digits == IF signed THEN Tail(s) ELSE s IN
  IF digits = <<>> \/ \E i \in 1..Len(digits) : ~IsDigit(digits[i])
  THEN [ok |-> FALSE, n |-> 0]
  ELSE [ok |-> TRUE,
        n |-> IF signed /\ s[1] = 45 THEN 0 - DigitsValue(digits, 0)
              ELSE DigitsValue(digits, 0)]

\* path without its trailing slashes
RECURSIVE TrimSlashes(_)
TrimSlashes(path) ==
  IF path # <<>> /\ path[Len(path)] = 47
  THEN TrimSlashes(SubSeq(path, 1, Len(path) - 1))
  ELSE path

\* the part of path after its last slash
RECURSIVE AfterLastSlash(_)
AfterLastSlash(path) ==
  LET i == IndexByte(path, 47) IN
  IF i = 0 THEN path ELSE AfterLastSlash(SubSeq(path, i + 1, Len(path)))

\* filepath.Base
Base(path) ==
  IF path = <<>> THEN <<46>>
  ELSE LET last == AfterLastSlash(TrimSlashes(path)) IN
       IF last = <<>> THEN <<47>> ELSE last

NoEventFields == [action |-> <<>>, devPath |-> <<>>, major |-> 0, minor |-> 0]

EventError(kind, e) == [kind |-> kind, err |-> e] @@ NoEventFields

\* listener.parseUEvent; udevOk is whether sys.MapToUdevData succeeds
parseUEvent(buf, udevOk) ==
  LET r == parse(buf)
      eventMap == r.event
      eventAction == Lookup(eventMap, KeyAction)
      path == Lookup(eventMap, KeyDevPath)
      major == Atoi(Lookup(eventMap, KeyMajor))
      minor == Atoi(Lookup(eventMap, KeyMinor)) IN
  IF r.kind # "ok" THEN EventError(r.kind, r.err)
  ELSE IF Lookup(eventMap, KeySubsystem) # Block
  THEN EventError("error", "errNonDeviceEvent")
  ELSE IF ~KnownAction(eventAction) THEN EventError("error", "invalid device action")
  ELSE IF path = <<>> THEN EventError("error", "invalid path")
  ELSE IF ~major.ok THEN EventError("error", "strconv.Atoi: MAJOR")
  ELSE IF ~minor.ok THEN EventError("error", "strconv.Atoi: MINOR")
  ELSE IF ~udevOk THEN EventError("error", "MapToUdevData")
  ELSE [kind |-> "ok", err |-> "", action |-> eventAction,
        devPath |-> <<47, 100, 101, 118, 47>> \o Base(path), major |-> major.n, minor |-> minor.n]


(***************************************************************************)
(* The buffers the decoder is run on                                       *)
(***************************************************************************)
\* the magic number in network byte order, and two other values
GoodMagic == <<254, 237, 202, 254>>
Magics == {GoodMagic, <<254, 237, 202, 255>>, <<0, 237, 202, 254>>}

\* the signature, and eight bytes that are not the signature
Signatures == {libudev, <<108, 105, 98, 117, 100, 101, 118, 120>>}

\* values of the payload-offset byte
Offsets == {0, 16, 17, 18, 19, 22, 255}

\* what follows the 17 bytes of the header
Tails ==
  { <<>>,
    <<65, 61, 120, 0>>,
    <<0, 65, 0, 0, 66, 61, 120, 61, 121>>,
    <<120, 120, 65, 61, 120>> }

RawMessage(sig, magic, off, tail) == sig \o magic \o <<0, 0, 0, 0>> \o <<off>> \o tail

\* whole messages, and messages cut short
RawBuffers ==
  UNION { { SubSeq(RawMessage(sig, magic, off, tail), 1, n)
            : n \in {0, 7, 8, 11, 12, 16, 17, Len(RawMessage(sig, magic, off, tail))} }
          : sig \in Signatures, magic \in Magics, off \in Offsets, tail \in Tails }

\* keys and values of a payload: a value may hold "="
PayloadKeys == {<<65>>, <<65, 66>>, <<66>>}
PayloadValues == {<<>>, <<120>>, <<120, 61, 121>>}

\* every ordering of every mapping of at most MaxFields keys: a list of
\* <<key, value>> with distinct keys
FieldOrders ==
  UNION { { f \in [1..n -> PayloadKeys \X PayloadValues] :
              \A i, j \in 1..n : f[i][1] = f[j][1] => i = j }
          : n \in 0..MaxFields }

\* a field that is absent, or present with one of the values
FieldOptions(k, values) == {<<>>} \cup { << <<k, v>> >> : v \in values }

\* payloads of device events, good and bad ones
DeviceFieldLists ==
  { a \o b \o c \o d \o e :
      a \in FieldOptions(KeySubsystem, {Block, <<110, 101, 116>>}),
      b \in FieldOptions(KeyAction, {Add, Change, Remove, <<109, 111, 118, 101>>}),
      c \in FieldOptions(KeyDevPath, {<<>>, <<47, 100, 101, 118, 105, 99, 101, 115, 47, 115, 100, 97, 47>>}),
      d \in FieldOptions(KeyMajor, {<<56>>, <<120>>}),
      e \in FieldOptions(KeyMinor, {<<49, 54>>, <<45>>}) }

\* a field on the wire: KEY=VALUE, or the bare KEY for an empty value
EncodeField(f, bare) ==
  IF f[2] = <<>> /\ bare THEN f[1] ELSE f[1] \o <<61>> \o f[2]

\* the fields with a NUL between them
RECURSIVE JoinFields(_, _)
JoinFields(fields, bare) ==
  IF fields = <<>> THEN <<>>
  ELSE IF Len(fields) = 1 THEN EncodeField(fields[1], bare)
  ELSE EncodeField(fields[1], bare) \o fieldDelimiter \o JoinFields(Tail(fields), bare)

\* a message with a valid header: pad lies between header and payload
Encoded(fields, bare, trailing, pad) ==
  RawMessage(libudev, GoodMagic, 17 + Len(pad),
             pad \o JoinFields(fields, bare)
                 \o (IF trailing THEN fieldDelimiter ELSE <<>>))

\* the kernel sends the fields
Encode ==
  /\ uPc = "encode"
  /\ \E bare, trailing \in BOOLEAN, pad \in {<<>>, <<1, 2>>} :
       uBuf' = Encoded(uFields, bare, trailing, pad)
  /\ uPc' = "parse"
  /\ UNCHANGED <<uFields, uRes, uEv>>
  /\ UNCHANGED nonUEventVars

\* parse(uBuf)
Parse ==
  /\ uPc = "parse"
  /\ uRes' = parse(uBuf)
  /\ uPc' = "parsed"
  /\ UNCHANGED <<uFields, uBuf, uEv>>
  /\ UNCHANGED nonUEventVars

\* l.parseUEvent(uBuf)
ParseUEvent ==
  /\ uPc \in {"parse", "parsed"}
  /\ \E udevOk \in BOOLEAN : uEv' = parseUEvent(uBuf, udevOk)
  /\ uPc' = "event"
  /\ UNCHANGED <<uFields, uBuf, uRes>>
  /\ UNCHANGED nonUEventVars

\* the decoder run on encoded payloads
InitUEvent ==
  /\ HandlerIdle
  /\ MatcherIdle
  /\ ListenerIdle
  /\ DeviceIdle /\ ToolsIdle
  /\ uPc = "encode"
  /\ uFields \in FieldOrders \cup DeviceFieldLists
  /\ uBuf = <<>>
  /\ uRes = NotParsed
  /\ uEv = NotParsed

NextUEvent ==
  \/ Encode
  \/ Parse
  \/ ParseUEvent

SpecUEvent == InitUEvent /\ [][NextUEvent]_vars

\* the decoder run on any buffer
InitParse ==
  /\ HandlerIdle
  /\ MatcherIdle
  /\ ListenerIdle
  /\ DeviceIdle /\ ToolsIdle
  /\ uPc = "parse"
  /\ uFields = <<>>
  /\ uBuf \in RawBuffers
  /\ uRes = NotParsed
  /\ uEv = NotParsed

NextParse ==
  \/ Parse
  \/ ParseUEvent

SpecParse == InitParse /\ [][NextParse]_vars


(***************************************************************************)
(* package uevent: listener.msgPeek, msgRead, readMsg                      *)
(***************************************************************************)
Min(a, b) == IF a < b THEN a ELSE b

\* syscall.Recvfrom on the datagram socket: the bytes of the oldest pending
\* message that fit into a buffer of size bytes
Recvfrom(pending, size) == SubSeq(Head(pending), 1, Min(Len(Head(pending)), size))

\* PeekDone taking the first peek for the whole message
PeekDone_Always(n, size) == TRUE

\* PeekDone with a peek that fills the buffer ending the loop as well
PeekDone_Filled(n, size) == n <= size

\* msgPeek: "if n < len(buf) { break }"
PeekDone(n, size) == n < size

\* ShortRead taking every count for a full read
ShortRead_Never(n, buf) == FALSE

\* msgRead: "if n != len(buf) { return errShortRead }"
ShortRead(n, buf) == n # Len(buf)

\* ctx.Done() or l.closeCh is ready
Cancelled == lCtxDone \/ lClosed

\* the errors of the ready cases of msgPeek's select
CancelErrors ==
  (IF lCtxDone THEN {"context canceled"} ELSE {})
    \cup (IF lClosed THEN {"errClosedListener"} ELSE {})

\* readMsg returns
ReturnMsg(buf, err) ==
  /\ lPc' = "idle"
  /\ lRet' = [done |-> TRUE, err |-> err, buf |-> buf]
  /\ lDelivered' = IF err = "" THEN Append(lDelivered, buf) ELSE lDelivered

\* the caller calls l.readMsg(ctx); msgPeek makes its buffer of one page
ReadMsgCall ==
  /\ lPc = "idle"
  /\ lPc' = "peek"
  /\ lCap' = PageSize
  /\ lBuf' = <<>>
  /\ lPeekN' = 0
  /\ lReadN' = 0
  /\ lRet' = NoMsgReturn
  /\ lLate' = FALSE
  /\ UNCHANGED <<lQueue, lArrived, lCtxDone, lClosed, lDelivered>>
  /\ UNCHANGED nonListenerVars

\* msgPeek: one iteration of its loop, the select and the peek; then the
\* test of n, and readMsg's test of n == 0
MsgPeek ==
  /\ lPc = "peek"
  /\ IF Cancelled
     THEN /\ \E e \in CancelErrors : ReturnMsg(<<>>, e)
          /\ UNCHANGED <<lCap, lBuf, lPeekN, lLate>>
     ELSE \E ok \in BOOLEAN :
            IF ~ok
            THEN /\ ReturnMsg(<<>>, "recvfrom failed")
                 /\ UNCHANGED <<lCap, lBuf, lPeekN, lLate>>
            ELSE LET data == IF lQueue = <<>> THEN <<>> ELSE Recvfrom(lQueue, lCap)
                     n == Len(data) IN
                 /\ lPeekN' = n
                 /\ lLate' = (lLate \/ Cancelled)
                 /\ IF ~PeekDone(n, lCap)
                    THEN /\ lCap' = lCap + PageSize
                         /\ UNCHANGED <<lPc, lBuf>>
                    ELSE IF n = 0
                    THEN /\ lCap' = PageSize
                         /\ UNCHANGED <<lPc, lBuf>>
                    ELSE /\ lBuf' = data
                         /\ lPc' = "read"
                         /\ lCap' = lCap
                 /\ UNCHANGED <<lRet, lDelivered>>
  /\ UNCHANGED <<lQueue, lArrived, lCtxDone, lClosed, lReadN>>
  /\ UNCHANGED nonListenerVars

\* msgRead(buf) and the return of readMsg; buf is not nil here, msgPeek
\* returned it without an error
MsgRead ==
  /\ lPc = "read"
  /\ lQueue # <<>>
  /\ lLate' = (lLate \/ Cancelled)
  /\ \E ok \in BOOLEAN :
       IF ~ok
       THEN /\ ReturnMsg(<<>>, "recvfrom failed")
            /\ UNCHANGED <<lQueue, lReadN>>
       ELSE LET data == Recvfrom(lQueue, Len(lBuf)) IN
            /\ lQueue' = Tail(lQueue)
            /\ lReadN' = Len(data)
            /\ IF ShortRead(Len(data), lBuf)
               THEN ReturnMsg(<<>>, "errShortRead")
               ELSE ReturnMsg(data, "")
  /\ UNCHANGED <<lArrived, lCtxDone, lClosed, lCap, lBuf, lPeekN>>
  /\ UNCHANGED nonListenerVars

\* the kernel queues a message: its bytes tell which one it is
Arrive ==
  /\ Len(lArrived) < MaxMsgs
  /\ \E len \in 1..MaxMsgLen :
       LET msg == [i \in 1..len |-> Len(lArrived) + 1] IN
       /\ lQueue' = Append(lQueue, msg)
       /\ lArrived' = Append(lArrived, msg)
  /\ UNCHANGED <<lCtxDone, lClosed, lPc, lCap, lBuf, lPeekN, lReadN, lRet,
                 lDelivered, lLate>>
  /\ UNCHANGED nonListenerVars

\* the caller cancels the context
CancelContext ==
  /\ ~lCtxDone
  /\ lCtxDone' = TRUE
  /\ UNCHANGED <<lQueue, lArrived, lClosed, lPc, lCap, lBuf, lPeekN, lReadN, lRet,
                 lDelivered, lLate>>
  /\ UNCHANGED nonListenerVars

\* the listener is closed
CloseListener ==
  /\ ~lClosed
  /\ lClosed' = TRUE
  /\ UNCHANGED <<lQueue, lArrived, lCtxDone, lPc, lCap, lBuf, lPeekN, lReadN, lRet,
                 lDelivered, lLate>>
  /\ UNCHANGED nonListenerVars

\* another reader of the socket takes the oldest message between the peek
\* and the consuming read
OtherReader ==
  /\ lPc = "read"
  /\ lQueue # <<>>
  /\ lQueue' = Tail(lQueue)
  /\ UNCHANGED <<lArrived, lCtxDone, lClosed, lPc, lCap, lBuf, lPeekN, lReadN, lRet,
                 lDelivered, lLate>>
  /\ UNCHANGED nonListenerVars

InitListener ==
  /\ HandlerIdle
  /\ MatcherIdle
  /\ UEventIdle
  /\ ListenerIdle
  /\ DeviceIdle /\ ToolsIdle

\* the listener, the only reader of its socket
NextListener ==
  \/ Arrive
  \/ CancelContext
  \/ CloseListener
  \/ ReadMsgCall
  \/ MsgPeek
  \/ MsgRead

SpecListener == InitListener /\ [][NextListener]_vars

\* the listener on a socket that has another reader
NextSharedSocket ==
  \/ NextListener
  \/ OtherReader

SpecSharedSocket == InitListener /\ [][NextSharedSocket]_vars


(***************************************************************************)
(* package device: Device.ID and Device.ToNodeDevice on two snapshots      *)
(***************************************************************************)
\* Device.ToNodeDevice: Name, ID, MajorMinor and Size of the types.Device it
\* builds (Make, FSType, FSUUID and DeniedReason are read off udevData and
\* the flags, and take no part here)
ToNodeDevice(d, node) ==
  [name |-> d.name, id |-> ID(d, node), majorMinor |-> d.majorMinor,
   size |-> d.size]

\* names of holders: "dm-0", "dm-1"
HolderNames == {<<100, 109, 45, 48>>, <<100, 109, 45, 49>>}

\* mount points: "/a", "/b" and, a path with a comma in it, "/a,/b"
MountPaths == {<<47, 97>>, <<47, 98>>, <<47, 97, 44, 47, 98>>}

\* the lists without repetition over S, of at most MaxList elements
Lists(S) ==
  {l \in UNION {[1..n -> S] : n \in 0..MaxList} :
     \A i, j \in 1..Len(l) : i # j => l[i] # l[j]}

\* udev data: none, E=v, E=v with F=w, and E with the value "v;F=w"
UdevMaps ==
  { EmptyMap,
    << <<(<<69>>), <<118>>>> >>,
    << <<(<<70>>), <<119>>>>, <<(<<69>>), <<118>>>> >>,
    << <<(<<69>>), <<118, 59, 70, 61, 119>>>> >> }

\* the snapshots the first one is drawn from
Snapshots ==
  { [Device(Sda, 1, m) EXCEPT !.holders = h, !.udevData = u] :
      h \in Lists(HolderNames), m \in Lists(MountPaths),
      u \in {EmptyMap, << <<(<<70>>), <<119>>>>, <<(<<69>>), <<118>>>> >>} }

\* the snapshots the second one is drawn from: d with other lists, or with
\* one other attribute changed
Variants(d) ==
  { [d EXCEPT !.holders = h, !.mountPoints = m] :
      h \in Lists(HolderNames), m \in Lists(MountPaths) }
    \cup { [d EXCEPT !.udevData = u] : u \in UdevMaps }
    \cup { [d EXCEPT !.name = DevName(Sdb)],
           [d EXCEPT !.majorMinor = Sdb],
           [d EXCEPT !.size = 2],
           [d EXCEPT !.size = 10],
           [d EXCEPT !.hidden = TRUE],
           [d EXCEPT !.removable = TRUE],
           [d EXCEPT !.readOnly = TRUE],
           [d EXCEPT !.partitioned = TRUE],
           [d EXCEPT !.swapOn = TRUE],
           [d EXCEPT !.cdrom = TRUE],
           [d EXCEPT !.dmName = <<120>>] }

\* the caller calls d.ID(nodeID) on the first snapshot
CallID ==
  /\ dPc = "start"
  /\ dID' = ID(dDev, dNode)
  /\ dDev' = SortedInPlace(dDev)
  /\ dPc' = "one"
  /\ UNCHANGED <<dNode, dGiven, dOther, dNodeDev>>
  /\ UNCHANGED nonDeviceVars

\* the caller calls d.ToNodeDevice(nodeID, ...) on the second snapshot
CallToNodeDevice ==
  /\ dPc = "one"
  /\ dNodeDev' = ToNodeDevice(dOther, dNode)
  /\ dOther' = SortedInPlace(dOther)
  /\ dPc' = "done"
  /\ UNCHANGED <<dNode, dGiven, dDev, dID>>
  /\ UNCHANGED nonDeviceVars

InitID ==
  /\ HandlerIdle
  /\ MatcherIdle
  /\ UEventIdle
  /\ ListenerIdle
  /\ ToolsIdle
  /\ dPc = "start"
  /\ dNode \in Nodes
  /\ dDev \in Snapshots
  /\ dOther \in Variants(dDev)
  /\ dGiven = <<dDev, dOther>>
  /\ dID = <<>>
  /\ dNodeDev = <<>>

NextID ==
  \/ CallID
  \/ CallToNodeDevice

SpecID == InitID /\ [][NextID]_vars

(***************************************************************************)
(* kubectl-directpv: the capacity ledger kept in the Drive's finalizers    *)
(***************************************************************************)
\* the Drive the tools work on, and another Drive of the cluster
ThisDrive == "d1"
OtherDrive == "d2"

VolNames == {"v1", "v2"}
VolSizes == {1000, 2000}
\* the capacity each Volume was created with
VolSize(name) == IF name = "v1" THEN 1000 ELSE 2000
Totals == {1000, 4000}

\* A finalizer is the list of the strings it is concatenated of: the
\* data-protection finalizer is one string, a volume finalizer is
\* DirectCSIDriveFinalizerPrefix + volumeName.
DirectCSIDriveFinalizerDataProtection == <<"direct.csi.min.io/data-protection">>
DirectCSIDriveFinalizerPrefix == "direct.csi.min.io.volume/"
VolumeFinalizer(volumeName) == <<DirectCSIDriveFinalizerPrefix, volumeName>>

\* strings.HasPrefix(finalizer, DirectCSIDriveFinalizerPrefix) and
\* strings.TrimPrefix(finalizer, DirectCSIDriveFinalizerPrefix)
HasVolumePrefix(finalizer) ==
  Len(finalizer) = 2 /\ finalizer[1] = DirectCSIDriveFinalizerPrefix
TrimVolumePrefix(finalizer) == finalizer[2]

\* matcher.StringIn
StringIn(list, x) == \E i \in 1..Len(list) : list[i] = x

\* the Drive as a successful Update stores it: under the next version
Updated(drive) == [drive EXCEPT !.version = @ + 1]

\* what Get returns for a Volume: the record, not found, or another error
\* for the names in failing
GetVolume(volumes, failing, name) ==
  IF name \in failing THEN [err |-> ErrAPI]
  ELSE IF ~volumes[name].exists THEN [err |-> ErrNotFound]
  ELSE [err |-> Nil, capacity |-> volumes[name].capacity,
        drive |-> volumes[name].drive]

\* metadataSize := int64(0.0005*float32(dr.Status.TotalCapacity)); for the
\* capacities of Totals the float32 product truncates to this quotient
MetadataSize(totalCapacity) == (totalCapacity * 5) \div 10000

\* getAllocatedCapacityFromVolumes: the loop over the finalizers from the
\* i-th on, total being the sum so far
RECURSIVE AllocatedFrom(_, _, _, _, _)
AllocatedFrom(finalizers, i, total, volumes, failing) ==
  IF i > Len(finalizers) THEN [total |-> total, err |-> Nil]
  ELSE IF ~HasVolumePrefix(finalizers[i])
  THEN AllocatedFrom(finalizers, i + 1, total, volumes, failing)
  ELSE LET volume == GetVolume(volumes, failing, TrimVolumePrefix(finalizers[i]))
       IN IF volume.err = ErrNotFound
          THEN AllocatedFrom(finalizers, i + 1, total, volumes, failing)
          ELSE IF volume.err # Nil THEN [total |-> total, err |-> volume.err]
          ELSE AllocatedFrom(finalizers, i + 1, total + volume.capacity,
                             volumes, failing)

getAllocatedCapacityFromVolumes_CountsMissing(drive, volumes, failing) ==
  AllocatedFrom(drive.finalizers, 1, 0,
                [n \in VolNames |-> [exists |-> TRUE, capacity |-> VolSize(n),
                                     drive |-> drive.name]], failing)

getAllocatedCapacityFromVolumes(drive, volumes, failing) ==
  AllocatedFrom(drive.finalizers, 1, 0, volumes, failing)

\* hasUnexpectedFinalizers, from the i-th finalizer on
RECURSIVE UnexpectedFrom(_, _, _, _)
UnexpectedFrom(drive, i, volumes, failing) ==
  IF i > Len(drive.finalizers) THEN [found |-> FALSE, err |-> Nil]
  ELSE IF ~HasVolumePrefix(drive.finalizers[i])
  THEN UnexpectedFrom(drive, i + 1, volumes, failing)
  ELSE LET volume == GetVolume(volumes, failing,
                               TrimVolumePrefix(drive.finalizers[i]))
       IN IF volume.err = ErrNotFound THEN [found |-> TRUE, err |-> Nil]
          ELSE IF volume.err # Nil THEN [found |-> TRUE, err |-> volume.err]
          ELSE IF volume.drive # drive.name
          THEN [found |-> TRUE, err |-> Nil]
          ELSE UnexpectedFrom(drive, i + 1, volumes, failing)

hasUnexpectedFinalizers(drive, volumes, failing) ==
  UnexpectedFrom(drive, 1, volumes, failing)

\* the condition under which removeUnexpectedFinalizers keeps the finalizer
\* of a Volume it has fetched
KeepsFinalizer_Any(volume, drive) == TRUE

KeepsFinalizer(volume, drive) == volume.drive = drive.name

\* removeUnexpectedFinalizers, the loop that builds validFinalizers from the
\* i-th finalizer on
RECURSIVE ValidFrom(_, _, _, _, _)
ValidFrom(drive, i, valid, volumes, failing) ==
  IF i > Len(drive.finalizers) THEN [valid |-> valid, err |-> Nil]
  ELSE IF ~HasVolumePrefix(drive.finalizers[i])
  THEN ValidFrom(drive, i + 1, Append(valid, drive.finalizers[i]), volumes,
                 failing)
  ELSE LET volume == GetVolume(volumes, failing,
                               TrimVolumePrefix(drive.finalizers[i]))
       IN IF volume.err = ErrNotFound
          THEN ValidFrom(drive, i + 1, valid, volumes, failing)
          ELSE IF volume.err # Nil THEN [valid |-> valid, err |-> volume.err]
          ELSE IF KeepsFinalizer(volume, drive)
          THEN ValidFrom(drive, i + 1, Append(valid, drive.finalizers[i]),
                         volumes, failing)
          ELSE ValidFrom(drive, i + 1, valid, volumes, failing)

\* validFinalizers, were the loop to stop removing at the first finalizer
\* it removes
validFinalizers_FirstOnly(drive, volumes, failing) ==
  LET all == ValidFrom(drive, 1, <<>>, volumes, failing)
      gone == {i \in 1..Len(drive.finalizers) :
                 ~StringIn(all.valid, drive.finalizers[i])}
      first == CHOOSE i \in gone : \A j \in gone : i <= j
  IN IF all.err # Nil \/ gone = {} THEN all
     ELSE [valid |-> SubSeq(drive.finalizers, 1, first - 1)
                       \o SubSeq(drive.finalizers, first + 1,
                                 Len(drive.finalizers)),
           err |-> Nil]

validFinalizers(drive, volumes, failing) ==
  ValidFrom(drive, 1, <<>>, volumes, failing)

\* the condition under which setValidFinazers and dummyReleaseVolume set
\* the Drive Ready
OnlyDataProtection_Never(finalizers) == FALSE

OnlyDataProtection(finalizers) ==
  /\ Len(finalizers) = 1
  /\ finalizers[1] = DirectCSIDriveFinalizerDataProtection

\* setValidFinazers: what the closure makes of the Drive it has fetched
setValidFinazers(drive, finalizers) ==
  [drive EXCEPT !.finalizers = finalizers,
                !.status = IF OnlyDataProtection(finalizers)
                           THEN "Ready" ELSE @]

\* removeUnexpectedFinalizers run alone, its Gets and its Update succeeding:
\* the Drive it leaves
removeUnexpectedFinalizers(drive, volumes) ==
  Updated(setValidFinazers(drive, validFinalizers(drive, volumes, {}).valid))

\* updateDriveAllocatedCapacity: what the closure makes of the Drive
updateDriveAllocatedCapacity(drive, allocatedCapacity) ==
  [drive EXCEPT !.allocated = allocatedCapacity]

\* fixDriveForVolume that takes the size from the free capacity and does not
\* add it to the allocated
fixDriveForVolume_FreeOnly(drive, volumeName, size) ==
  IF ~StringIn(drive.finalizers, VolumeFinalizer(volumeName))
  THEN [drive EXCEPT !.status = "InUse", !.free = @ - size,
                     !.finalizers = Append(@, VolumeFinalizer(volumeName))]
  ELSE [drive EXCEPT !.status = "InUse"]

\* fixDriveForVolume: the Drive it submits to Update
fixDriveForVolume_Append(drive, volumeName, size) ==
  [drive EXCEPT !.status = "InUse", !.free = @ - size,
                !.allocated = @ + size,
                !.finalizers = Append(@, VolumeFinalizer(volumeName))]

fixDriveForVolume(drive, volumeName, size) ==
  IF ~StringIn(drive.finalizers, VolumeFinalizer(volumeName))
  THEN [drive EXCEPT !.status = "InUse", !.free = @ - size,
                     !.allocated = @ + size,
                     !.finalizers = Append(@, VolumeFinalizer(volumeName))]
  ELSE [drive EXCEPT !.status = "InUse"]

\* excludeFinalizer
excludeFinalizer(finalizers, finalizer) ==
  [result |-> SelectSeq(finalizers, LAMBDA f : f # finalizer),
   found |-> StringIn(finalizers, finalizer)]

\* unsetExistingFinalizer: the Drive it submits to Update, if it does
unsetExistingFinalizer(drive, volumeName) ==
  LET finalizer == VolumeFinalizer(volumeName)
  IN [found |-> StringIn(drive.finalizers, finalizer),
      drive |-> [drive EXCEPT !.finalizers =
                   SelectSeq(@, LAMBDA f : f # finalizer)]]

\* dummyReleaseVolume: the Drive it submits to Update, if it does
dummyReleaseVolume(drive, volumeName, capacity) ==
  LET excluded == excludeFinalizer(drive.finalizers,
                                   VolumeFinalizer(volumeName))
  IN [found |-> excluded.found,
      drive |-> [drive EXCEPT
                   !.status = IF OnlyDataProtection(excluded.result)
                              THEN "Ready" ELSE @,
                   !.finalizers = excluded.result,
                   !.free = @ + capacity,
                   !.allocated = drive.total - (drive.free + capacity)]]

\* the phases of a PersistentVolume, and what Get returns for one
Phases == {"Pending", "Available", "Bound", "Released", "Failed"}

PVLookups ==
  {[err |-> ErrNotFound], [err |-> ErrAPI]}
    \cup {[err |-> Nil, phase |-> ph, capacity |-> c] :
            ph \in Phases, c \in VolSizes}

\* isStaleVolume, were it not to look at the phase of the PersistentVolume
isStaleVolume_AnyPhase(volume, pv) ==
  IF volume.err = Nil THEN [stale |-> FALSE, capacity |-> 0, err |-> Nil]
  ELSE IF volume.err # ErrNotFound
  THEN [stale |-> FALSE, capacity |-> 0, err |-> volume.err]
  ELSE IF pv.err = ErrNotFound
  THEN [stale |-> TRUE, capacity |-> 0, err |-> Nil]
  ELSE IF pv.err # Nil THEN [stale |-> FALSE, capacity |-> 0, err |-> pv.err]
  ELSE [stale |-> TRUE, capacity |-> pv.capacity, err |-> Nil]

\* isStaleVolume, given what the two Gets return
isStaleVolume(volume, pv) ==
  IF volume.err = Nil THEN [stale |-> FALSE, capacity |-> 0, err |-> Nil]
  ELSE IF volume.err # ErrNotFound
  THEN [stale |-> FALSE, capacity |-> 0, err |-> volume.err]
  ELSE IF pv.err = ErrNotFound
  THEN [stale |-> TRUE, capacity |-> 0, err |-> Nil]
  ELSE IF pv.err # Nil THEN [stale |-> FALSE, capacity |-> 0, err |-> pv.err]
  ELSE IF pv.phase \in {"Released", "Failed"}
  THEN [stale |-> TRUE, capacity |-> pv.capacity, err |-> Nil]
  ELSE [stale |-> FALSE, capacity |-> 0, err |-> Nil]

\* the Volume records of the cluster
NoVolume == [exists |-> FALSE, capacity |-> 0, drive |-> ""]

VolumeRecords ==
  {v \in [VolNames ->
            {NoVolume} \cup {[exists |-> TRUE, capacity |-> c, drive |-> d] :
                               c \in VolSizes,
                               d \in {ThisDrive, OtherDrive}}] :
     \A n \in VolNames : v[n].exists => v[n].capacity = VolSize(n)}

\* the finalizers of a Drive that holds the volumes of the list names
FinalizersOf(names) ==
  <<DirectCSIDriveFinalizerDataProtection>>
    \o [i \in 1..Len(names) |-> VolumeFinalizer(names[i])]

\* the sum of the capacities of the volumes of the list names
RECURSIVE SizeOf(_)
SizeOf(names) ==
  IF names = <<>> THEN 0 ELSE VolSize(Head(names)) + SizeOf(Tail(names))

\* the Drives the tools can meet: Ready with the data-protection finalizer
\* alone, or InUse with the finalizers of volumes that were provisioned
\* within its capacity; the allocated capacity recorded is out of date
LedgerDrives ==
  {[name |-> ThisDrive, finalizers |-> FinalizersOf(names), status |-> st,
    allocated |-> 0, free |-> t, total |-> t, path |-> DevName(Sda),
    initialized |-> TRUE, version |-> 1] :
     names \in Lists(VolNames), st \in {"Ready", "InUse"},
     t \in Totals}

InitLedgerVars ==
  /\ kDrive \in {d \in LedgerDrives :
                   /\ d.status = "Ready" => Len(d.finalizers) = 1
                   /\ \A l \in Lists(VolNames) :
                        d.finalizers = FinalizersOf(l) => SizeOf(l) <= d.total}
  /\ kVolumes \in VolumeRecords
  /\ kFlags = Nil
  /\ kPc = "start"
  /\ kListed = Nil
  /\ kGot = Nil
  /\ kValid = <<>>
  /\ kAlloc = 0
  /\ kTries = 0
  /\ kErr = Nil
  /\ kWrote = -1
  /\ kChanged = FALSE
  /\ kOps = 0
  /\ kRuns = 0
  /\ sPc = "ready"
  /\ sVol = Nil
  /\ sTarget = Nil
  /\ kStale = Nil
  /\ kLast = -1
  /\ kRead = <<>>

\* checkDrives has listed the drives
Running == kPc # "start"

\* ---- checkDrives ----
\* the options of the command, and getFilteredDriveList: the drive is
\* listed with the status it has now
ListDrives ==
  /\ kPc = "start"
  /\ kFlags' \in [capacity : BOOLEAN, repair : BOOLEAN,
                  checkFinalizer : BOOLEAN]
  /\ kListed' = kDrive.status
  /\ kPc' = "finalizers"
  /\ UNCHANGED <<kDrive, kVolumes, kGot, kValid, kAlloc, kTries, kErr,
                 kWrote, kChanged, kOps, sPc, sVol, sTarget, kStale, kLast>>
  /\ UNCHANGED <<kRuns, changeVars, nonLedgerVars>>
  /\ UNCHANGED kRead

\* the finalizer check of a listed InUse drive: hasUnexpectedFinalizers, or
\* with repair removeUnexpectedFinalizers up to its retried closure
CheckFinalizers ==
  /\ kPc = "finalizers"
  /\ \E failing \in SUBSET VolNames :
       IF ~(kFlags.checkFinalizer /\ kListed = "InUse")
       THEN /\ kPc' = "capacity"
            /\ UNCHANGED <<kValid, kErr, kRead>>
       ELSE IF ~kFlags.repair
       THEN LET has == hasUnexpectedFinalizers(kDrive, kVolumes, failing)
            IN /\ kErr' = has.err
               /\ kPc' = IF has.err # Nil THEN "done" ELSE "capacity"
               /\ UNCHANGED <<kValid, kRead>>
       ELSE LET r == validFinalizers(kDrive, kVolumes, failing)
            IN /\ kErr' = r.err
               /\ kValid' = r.valid
               /\ kPc' = IF r.err # Nil THEN "done" ELSE "set_get"
               /\ kRead' = kDrive.finalizers
  /\ kTries' = 0
  /\ UNCHANGED <<kDrive, kVolumes, kFlags, kListed, kGot, kAlloc, kWrote,
                 kChanged, kOps, sPc, sVol, sTarget, kStale, kLast>>
  /\ UNCHANGED <<kRuns, changeVars, nonLedgerVars>>

\* setValidFinazers: the closure fetches the Drive
SetValidGet ==
  /\ kPc = "set_get"
  /\ kGot' = kDrive
  /\ kPc' = "set_update"
  /\ UNCHANGED <<kDrive, kVolumes, kFlags, kListed, kValid, kAlloc, kTries,
                 kErr, kWrote, kChanged, kOps, sPc, sVol, sTarget, kStale,
                 kLast>>
  /\ UNCHANGED <<kRuns, changeVars, nonLedgerVars>>
  /\ UNCHANGED kRead

\* setValidFinazers: the closure updates the Drive it fetched; on a conflict
\* retry.RetryOnConflict calls it again, RetrySteps times at most, and
\* removeUnexpectedFinalizers returns the last error
SetValidUpdate ==
  /\ kPc = "set_update"
  /\ IF kGot.version = kDrive.version
     THEN /\ kDrive' = Updated(setValidFinazers(kGot, kValid))
          /\ kLast' = IF kChanged THEN -1
                      ELSE Len(kGot.finalizers) - Len(kValid)
          /\ kRuns' = IF kChanged THEN 0 ELSE kRuns + 1
          /\ kPc' = "capacity"
          /\ kValid' = <<>>
          /\ UNCHANGED <<kTries, kErr>>
     ELSE /\ kTries' = kTries + 1
          /\ kPc' = IF kTries + 1 >= RetrySteps THEN "done" ELSE "set_get"
          /\ kErr' = IF kTries + 1 >= RetrySteps THEN ErrConflict ELSE kErr
          /\ kValid' = IF kTries + 1 >= RetrySteps THEN <<>> ELSE kValid
          /\ UNCHANGED <<kDrive, kLast, kRuns>>
  /\ kGot' = Nil
  /\ UNCHANGED <<kVolumes, kFlags, kListed, kAlloc, kWrote, kChanged, kOps,
                 sPc, sVol, sTarget, kStale>>
  /\ UNCHANGED <<changeVars, nonLedgerVars>>
  /\ UNCHANGED kRead

\* the capacity check of a listed InUse drive, up to the retried closure
CheckCapacity ==
  /\ kPc = "capacity"
  /\ \E failing \in SUBSET VolNames :
       IF ~(kFlags.capacity /\ kListed = "InUse")
       THEN /\ kPc' = "done"
            /\ UNCHANGED <<kAlloc, kErr>>
       ELSE LET r == getAllocatedCapacityFromVolumes(kDrive, kVolumes,
                                                     failing)
                allocatedCapacity == r.total + MetadataSize(kDrive.total)
            IN /\ kErr' = r.err
               /\ kAlloc' = allocatedCapacity
               /\ kPc' = IF r.err # Nil
                            \/ kDrive.allocated = allocatedCapacity
                            \/ ~kFlags.repair
                         THEN "done" ELSE "alloc_get"
  /\ kTries' = 0
  /\ UNCHANGED <<kDrive, kVolumes, kFlags, kListed, kGot, kValid, kWrote,
                 kChanged, kOps, sPc, sVol, sTarget, kStale, kLast>>
  /\ UNCHANGED <<kRuns, changeVars, nonLedgerVars>>
  /\ UNCHANGED kRead

\* updateDriveAllocatedCapacity: the closure fetches the Drive
AllocatedGet ==
  /\ kPc = "alloc_get"
  /\ kGot' = kDrive
  /\ kPc' = "alloc_update"
  /\ UNCHANGED <<kDrive, kVolumes, kFlags, kListed, kValid, kAlloc, kTries,
                 kErr, kWrote, kChanged, kOps, sPc, sVol, sTarget, kStale,
                 kLast>>
  /\ UNCHANGED <<kRuns, changeVars, nonLedgerVars>>
  /\ UNCHANGED kRead

\* updateDriveAllocatedCapacity: the closure updates the Drive; checkDrives
\* logs the error the retries end with and returns nil
AllocatedUpdate ==
  /\ kPc = "alloc_update"
  /\ IF kGot.version = kDrive.version
     THEN /\ kDrive' = Updated(updateDriveAllocatedCapacity(kGot, kAlloc))
          /\ kWrote' = kAlloc
          /\ kPc' = "done"
          /\ UNCHANGED kTries
     ELSE /\ kTries' = kTries + 1
          /\ kPc' = IF kTries + 1 >= RetrySteps THEN "done" ELSE "alloc_get"
          /\ UNCHANGED <<kDrive, kWrote>>
  /\ kGot' = Nil
  /\ UNCHANGED <<kVolumes, kFlags, kListed, kValid, kAlloc, kErr, kChanged,
                 kOps, sPc, sVol, sTarget, kStale, kLast>>
  /\ UNCHANGED <<kRuns, changeVars, nonLedgerVars>>
  /\ UNCHANGED kRead

\* the check is run once more
RunAgain ==
  /\ kPc = "done"
  /\ kOps < MaxOps
  /\ kOps' = kOps + 1
  /\ kPc' = "start"
  /\ kListed' = Nil
  /\ kErr' = Nil
  /\ kWrote' = -1
  /\ kChanged' = FALSE
  /\ kTries' = 0
  /\ kAlloc' = 0
  /\ UNCHANGED <<kDrive, kVolumes, kFlags, kGot, kValid, sPc, sVol, sTarget,
                 kStale, kLast>>
  /\ UNCHANGED <<kRuns, changeVars, nonLedgerVars>>
  /\ UNCHANGED kRead

\* ---- setCorrectDriveByFSUUID ----
\* the closure fetches the Volume and finds the Drive of its host path
SetCorrectStart ==
  /\ sPc = "ready"
  /\ kOps < MaxOps
  /\ \E name \in VolNames, target \in {ThisDrive, OtherDrive} :
       /\ kVolumes[name].exists
       /\ sVol' = [name |-> name, drive |-> kVolumes[name].drive,
                   capacity |-> kVolumes[name].capacity]
       /\ sTarget' = target
  /\ sPc' = "unset"
  /\ kOps' = kOps + 1
  /\ UNCHANGED <<kDrive, kVolumes, kFlags, kPc, kListed, kGot, kValid, kAlloc,
                 kTries, kErr, kWrote, kChanged, kStale, kLast>>
  /\ UNCHANGED <<kRuns, changeVars, nonLedgerVars>>
  /\ UNCHANGED kRead

\* unsetExistingFinalizer(ctx, volumeName, volume.Status.Drive)
SetCorrectUnset ==
  /\ sPc = "unset"
  /\ LET r == unsetExistingFinalizer(kDrive, sVol.name)
     IN IF sVol.drive = ThisDrive /\ r.found
        THEN /\ kDrive' = Updated(r.drive)
             /\ kChanged' = (kChanged \/ Running)
             /\ kLast' = -1
             /\ kRuns' = 0
        ELSE UNCHANGED <<kDrive, kChanged, kLast, kRuns>>
  /\ sPc' = "fix"
  /\ UNCHANGED <<kVolumes, kFlags, kPc, kListed, kGot, kValid, kAlloc, kTries,
                 kErr, kWrote, kOps, sVol, sTarget, kStale>>
  /\ UNCHANGED <<changeVars, nonLedgerVars>>
  /\ UNCHANGED kRead

\* fixDriveForVolume(ctx, volume.Name, filteredDrives[0].Name,
\* volume.Status.TotalCapacity)
SetCorrectFix ==
  /\ sPc = "fix"
  /\ IF sTarget = ThisDrive
     THEN /\ kDrive' = Updated(fixDriveForVolume(kDrive, sVol.name,
                                                 sVol.capacity))
          /\ kChanged' = (kChanged \/ Running)
          /\ kLast' = -1
          /\ kRuns' = 0
     ELSE UNCHANGED <<kDrive, kChanged, kLast, kRuns>>
  /\ sPc' = "volume"
  /\ UNCHANGED <<kVolumes, kFlags, kPc, kListed, kGot, kValid, kAlloc, kTries,
                 kErr, kWrote, kOps, sVol, sTarget, kStale>>
  /\ UNCHANGED <<changeVars, nonLedgerVars>>
  /\ UNCHANGED kRead

\* volume.Status.Drive = filteredDrives[0].Name and the Update of the
\* Volume, which fails if the Volume is gone
SetCorrectVolume ==
  /\ sPc = "volume"
  /\ IF kVolumes[sVol.name].exists
     THEN /\ kVolumes' = [kVolumes EXCEPT ![sVol.name].drive = sTarget]
          /\ kChanged' = (kChanged \/ Running)
          /\ kLast' = -1
          /\ kRuns' = 0
     ELSE UNCHANGED <<kVolumes, kChanged, kLast, kRuns>>
  /\ sPc' = "ready"
  /\ sVol' = Nil
  /\ sTarget' = Nil
  /\ UNCHANGED <<kDrive, kFlags, kPc, kListed, kGot, kValid, kAlloc, kTries,
                 kErr, kWrote, kOps, kStale>>
  /\ UNCHANGED <<changeVars, nonLedgerVars>>
  /\ UNCHANGED kRead

\* ---- reclaimDrives ----
\* dummyDelete of a stale volume releases it from its Drive:
\* dummyReleaseVolume(ctx, volume.Status.Drive, volume.Name,
\* volume.Status.TotalCapacity)
DummyReleaseVolume ==
  /\ kOps < MaxOps
  /\ \E name \in VolNames, pv \in PVLookups, capacity \in VolSizes :
       LET stale == isStaleVolume(GetVolume(kVolumes, {}, name), pv)
           r == dummyReleaseVolume(kDrive, name,
                                   IF stale.capacity = 0 THEN capacity
                                   ELSE stale.capacity)
       IN /\ stale.stale
          /\ IF r.found
             THEN /\ kDrive' = Updated(r.drive)
                  /\ kChanged' = (kChanged \/ Running)
                  /\ kLast' = -1
                  /\ kRuns' = 0
             ELSE UNCHANGED <<kDrive, kChanged, kLast, kRuns>>
  /\ kOps' = kOps + 1
  /\ UNCHANGED <<kVolumes, kFlags, kPc, kListed, kGot, kValid, kAlloc, kTries,
                 kErr, kWrote, sPc, sVol, sTarget, kStale>>
  /\ UNCHANGED <<changeVars, nonLedgerVars>>
  /\ UNCHANGED kRead

\* reclaimDrives asks whether the volume of a finalizer is stale
CallIsStaleVolume ==
  /\ kStale = Nil
  /\ \E name \in VolNames, failing \in SUBSET VolNames, pv \in PVLookups :
       LET volume == GetVolume(kVolumes, failing, name)
       IN kStale' = [name |-> name, volume |-> volume, pv |-> pv,
                     ret |-> isStaleVolume(volume, pv)]
  /\ UNCHANGED <<kDrive, kVolumes, kFlags, kPc, kListed, kGot, kValid, kAlloc,
                 kTries, kErr, kWrote, kChanged, kOps, sPc, sVol, sTarget,
                 kLast>>
  /\ UNCHANGED <<kRuns, changeVars, nonLedgerVars>>
  /\ UNCHANGED kRead

\* ---- other clients of the cluster ----
\* a Volume is deleted
DeleteVolume ==
  /\ kOps < MaxOps
  /\ \E name \in VolNames :
       /\ kVolumes[name].exists
       /\ kVolumes' = [kVolumes EXCEPT ![name] = NoVolume]
  /\ kOps' = kOps + 1
  /\ kChanged' = (kChanged \/ Running)
  /\ kLast' = -1
  /\ kRuns' = 0
  /\ UNCHANGED <<kDrive, kFlags, kPc, kListed, kGot, kValid, kAlloc, kTries,
                 kErr, kWrote, sPc, sVol, sTarget, kStale>>
  /\ UNCHANGED <<changeVars, nonLedgerVars>>
  /\ UNCHANGED kRead

InitLedger ==
  /\ HandlerIdle
  /\ MatcherIdle
  /\ UEventIdle
  /\ ListenerIdle
  /\ DeviceIdle
  /\ ChangeIdle
  /\ ProbeIdle
  /\ MoreIdle
  /\ InitLedgerVars

NextLedger ==
  \/ ListDrives
  \/ CheckFinalizers
  \/ SetValidGet
  \/ SetValidUpdate
  \/ CheckCapacity
  \/ AllocatedGet
  \/ AllocatedUpdate
  \/ RunAgain
  \/ SetCorrectStart
  \/ SetCorrectUnset
  \/ SetCorrectFix
  \/ SetCorrectVolume
  \/ DummyReleaseVolume
  \/ DeleteVolume

SpecLedger == InitLedger /\ [][NextLedger]_vars

\* reclaimDrives alone: the staleness check and the release
NextReclaim ==
  \/ CallIsStaleVolume
  \/ DummyReleaseVolume

SpecReclaim == InitLedger /\ [][NextReclaim]_vars

(***************************************************************************)
(* package node: the hotplug Change handler of a Drive                     *)
(***************************************************************************)
\* the listener has matched the device of a change event to the Drive and
\* calls Change with the Drive object it has read
MatchDrive ==
  /\ hPc = "ready"
  /\ hDrive' = kDrive
  /\ hPc' = "matched"
  /\ UNCHANGED hResult
  /\ UNCHANGED <<ledgerVars, nonLedgerVars>>

\* syncDrive: the Drive with the attributes of the device, here its path;
\* it can fail
syncDrive(drive, path, ok) ==
  [drive |-> [drive EXCEPT !.path = path], err |-> IF ok THEN Nil ELSE ErrAPI]

\* Change: what it submits to Update is the Drive it was called with, synced
\* and with the Initialized condition set from the error of syncDrive; it
\* calls Update once and returns its error
DriveEventChange ==
  /\ hPc = "matched"
  /\ \E path \in {DevName(Sda), DevName(Sdb)}, ok \in BOOLEAN,
        labelsOk \in BOOLEAN :
       LET synced == syncDrive(hDrive, path, ok)
           updatedDrive == [synced.drive EXCEPT
                              !.initialized = (synced.err = Nil)]
       IN IF synced.err = Nil /\ hDrive.path # path /\ ~labelsOk
          THEN /\ hResult' = [err |-> ErrAPI, updates |-> 0,
                              version |-> hDrive.version]
               /\ UNCHANGED kDrive
          ELSE IF updatedDrive.version = kDrive.version
          THEN /\ kDrive' = Updated(updatedDrive)
               /\ hResult' = [err |-> Nil, updates |-> 1,
                              version |-> hDrive.version]
          ELSE /\ hResult' = [err |-> ErrConflict, updates |-> 1,
                              version |-> hDrive.version]
               /\ UNCHANGED kDrive
  /\ hPc' = "done"
  /\ UNCHANGED hDrive
  /\ UNCHANGED <<kVolumes, kFlags, kPc, kListed, kGot, kValid, kAlloc, kTries,
                 kErr, kWrote, kChanged, kOps, kRuns, sPc, sVol, sTarget,
                 kStale, kLast>>
  /\ UNCHANGED nonLedgerVars
  /\ UNCHANGED kRead

\* the next change event of the device
NextChangeEvent ==
  /\ hPc = "done"
  /\ kOps < MaxOps
  /\ kOps' = kOps + 1
  /\ hPc' = "ready"
  /\ hDrive' = Nil
  /\ hResult' = Nil
  /\ UNCHANGED <<kDrive, kVolumes, kFlags, kPc, kListed, kGot, kValid, kAlloc,
                 kTries, kErr, kWrote, kChanged, kRuns, sPc, sVol, sTarget,
                 kStale, kLast>>
  /\ UNCHANGED nonLedgerVars
  /\ UNCHANGED kRead

InitChange ==
  /\ HandlerIdle
  /\ MatcherIdle
  /\ UEventIdle
  /\ ListenerIdle
  /\ DeviceIdle
  /\ ProbeIdle
  /\ MoreIdle
  /\ InitLedgerVars
  /\ hPc = "ready"
  /\ hDrive = Nil
  /\ hResult = Nil

NextChange ==
  \/ MatchDrive
  \/ DriveEventChange
  \/ NextChangeEvent
  \/ SetCorrectStart
  \/ SetCorrectUnset
  \/ SetCorrectFix
  \/ SetCorrectVolume
  \/ DummyReleaseVolume

SpecChange == InitChange /\ [][NextChange]_vars

(***************************************************************************)
(* package device: deniedReason                                            *)
(***************************************************************************)
minSupportedDeviceSize == 512 * 1024 * 1024

\* the udev data keys of the filesystem type and UUID
Key_FSType == <<69, 58, 73, 68, 95, 70, 83, 95, 84, 89, 80, 69>>
Key_FSUUID == <<69, 58, 73, 68, 95, 70, 83, 95, 85, 85, 73, 68>>

\* "xfs", "ext4" and the filesystem UUIDs "u1", "u2"
XFS == <<120, 102, 115>>
Ext4 == <<101, 120, 116, 52>>
UUID1 == <<117, 49>>
UUID2 == <<117, 50>>

\* m[key] of a map[string]string: "" without the key
MapIndex(m, key) ==
  IF \E i \in 1..Len(m) : m[i][1] = key
  THEN m[CHOOSE i \in 1..Len(m) : m[i][1] = key][2]
  ELSE <<>>

FSType(d) == MapIndex(d.udevData, Key_FSType)
FSUUID(d) == MapIndex(d.udevData, Key_FSUUID)

\* err.Error() of what the lookup can return
ErrorText(err) ==
  IF err = ErrNotFound THEN <<110, 111, 116, 32, 102, 111, 117, 110, 100>>
  ELSE <<97, 112, 105, 32, 101, 114, 114, 111, 114>>

\* the reasons, as deniedReason writes them
TooSmallReason == <<84, 111, 111, 32, 115, 109, 97, 108, 108>>
HiddenReason == <<72, 105, 100, 100, 101, 110>>
ReadOnlyReason == <<82, 101, 97, 100, 32, 111, 110, 108, 121>>
PartitionedReason == <<80, 97, 114, 116, 105, 116, 105, 111, 110, 101, 100>>
HeldReason ==
  <<72, 101, 108, 100, 32, 98, 121, 32, 111, 116, 104, 101, 114, 32, 100,
    101, 118, 105, 99, 101>>
MountedReason == <<77, 111, 117, 110, 116, 101, 100>>
SwapReason == <<83, 119, 97, 112>>
CDROMReason == <<67, 68, 82, 79, 77>>
InternalErrorPrefix ==
  <<105, 110, 116, 101, 114, 110, 97, 108, 32, 101, 114, 114, 111, 114, 59,
    32>>
UsedByReason ==
  <<85, 115, 101, 100, 32, 98, 121, 32, 68, 105, 114, 101, 99, 116, 80, 86>>
ReasonSeparator == <<59, 32>>

\* TooSmall with a device of the minimum size too small as well
TooSmall_Inclusive(d) == d.size <= minSupportedDeviceSize

\* d.Size < minSupportedDeviceSize
TooSmall(d) == d.size < minSupportedDeviceSize

\* the reason of the lookup, as a list of none or one: the lookup is made
\* for an xfs filesystem with a UUID only; findDriveByFSUUID is what the
\* injected lookup returns for the UUID of d
LookupReasons(d, findDriveByFSUUID) ==
  IF FSType(d) = XFS /\ FSUUID(d) # <<>>
  THEN IF findDriveByFSUUID # Nil
       THEN IF findDriveByFSUUID # ErrNotFound
            THEN <<InternalErrorPrefix \o ErrorText(findDriveByFSUUID)>>
            ELSE <<>>
       ELSE <<UsedByReason>>
  ELSE <<>>

\* Device.deniedReason
deniedReason(d, findDriveByFSUUID) ==
  LET reasons ==
        (IF TooSmall(d) THEN <<TooSmallReason>> ELSE <<>>)
        \o (IF d.hidden THEN <<HiddenReason>> ELSE <<>>)
        \o (IF d.readOnly THEN <<ReadOnlyReason>> ELSE <<>>)
        \o (IF d.partitioned THEN <<PartitionedReason>> ELSE <<>>)
        \o (IF Len(d.holders) # 0 THEN <<HeldReason>> ELSE <<>>)
        \o (IF Len(d.mountPoints) # 0 THEN <<MountedReason>> ELSE <<>>)
        \o (IF d.swapOn THEN <<SwapReason>> ELSE <<>>)
        \o (IF d.cdrom THEN <<CDROMReason>> ELSE <<>>)
        \o LookupReasons(d, findDriveByFSUUID)
  IN IF Len(reasons) # 0 THEN Join(reasons, ReasonSeparator) ELSE <<>>

\* the udev data of a device without a filesystem, with an xfs filesystem
\* of UUID u1, with an ext4 filesystem of UUID u1, and with an xfs
\* filesystem whose UUID udev does not give
FilesystemMaps ==
  { EmptyMap,
    << <<Key_FSType, XFS>>, <<Key_FSUUID, UUID1>> >>,
    << <<Key_FSType, Ext4>>, <<Key_FSUUID, UUID1>> >>,
    << <<Key_FSType, XFS>> >> }

\* the devices deniedReason is called on
DeniedDevices ==
  { [Device(Sda, size, m) EXCEPT
       !.hidden = hi, !.readOnly = ro, !.partitioned = pa, !.holders = h,
       !.swapOn = sw, !.cdrom = cd, !.udevData = u] :
      size \in {minSupportedDeviceSize - 1, minSupportedDeviceSize},
      m \in {<<>>, <<(<<47, 97>>)>>},
      hi \in BOOLEAN, ro \in BOOLEAN, pa \in BOOLEAN,
      h \in {<<>>, <<(<<100, 109, 45, 48>>)>>},
      sw \in BOOLEAN, cd \in BOOLEAN, u \in FilesystemMaps }

\* what the injected lookup can return: a drive found, not found, or
\* another error
LookupResults == {Nil, ErrNotFound, ErrAPI}

\* the caller calls d.deniedReason(findDriveByFSUUID)
CallDeniedReason ==
  /\ pPc = "start"
  /\ pReason' = deniedReason(pDevices.devices[1], pLookup)
  /\ pPc' = "denied"
  /\ UNCHANGED <<pDevices, pLookup, pXFS, pMap>>
  /\ UNCHANGED nonProbeVars

InitDenied ==
  /\ HandlerIdle
  /\ MatcherIdle
  /\ UEventIdle
  /\ ListenerIdle
  /\ DeviceIdle
  /\ LedgerIdle
  /\ ChangeIdle
  /\ MoreIdle
  /\ pPc = "start"
  /\ \E d \in DeniedDevices : pDevices = [devices |-> <<d>>, err |-> Nil]
  /\ pLookup \in LookupResults
  /\ pXFS = <<>>
  /\ pReason = <<>>
  /\ pMap = <<>>

NextDenied == CallDeniedReason

SpecDenied == InitDenied /\ [][NextDenied]_vars

(***************************************************************************)
(* package device: ProbeDeviceMap                                          *)
(***************************************************************************)
ErrFSNotFound == <<"filesystem not found">>

\* Skipped without the test of the size
Skipped_ZeroSizeProbed(dev) ==
  dev.hidden \/ dev.partitioned \/ Len(dev.holders) # 0 \/ dev.swapOn
    \/ dev.cdrom

\* the devices ProbeDeviceMap passes over without probing them
Skipped(dev) ==
  dev.hidden \/ dev.partitioned \/ Len(dev.holders) # 0 \/ dev.swapOn
    \/ dev.cdrom \/ dev.size = 0

\* ProbedDevice{Device: dev, FSUUID: ..., Label: ..., ...}
ProbedDevice(dev, fs) ==
  [device |-> dev, fsuuid |-> fs.fsuuid, label |-> fs.label,
   totalCapacity |-> fs.totalCapacity, freeCapacity |-> fs.freeCapacity]

\* deviceMap[fsuuid] = append(deviceMap[fsuuid], ProbedDevice{...})
AppendTo(deviceMap, fsuuid, entry) ==
  [k \in DOMAIN deviceMap \cup {fsuuid} |->
     IF k = fsuuid
     THEN Append(IF k \in DOMAIN deviceMap THEN deviceMap[k] ELSE <<>>, entry)
     ELSE deviceMap[k]]

\* the loop of ProbeDeviceMap from device i on; xfsProbe[i] is what
\* xfs.Probe returns for device i, called the devices it was called on
RECURSIVE ProbeFrom(_, _, _, _, _)
ProbeFrom(devices, xfsProbe, i, deviceMap, called) ==
  IF i > Len(devices) THEN [deviceMap |-> deviceMap, probed |-> called]
  ELSE IF Skipped(devices[i])
  THEN ProbeFrom(devices, xfsProbe, i + 1, deviceMap, called)
  ELSE IF xfsProbe[i].err # Nil
  THEN ProbeFrom(devices, xfsProbe, i + 1, deviceMap, called \cup {i})
  ELSE ProbeFrom(devices, xfsProbe, i + 1,
                 AppendTo(deviceMap, xfsProbe[i].fsuuid,
                          ProbedDevice(devices[i], xfsProbe[i])),
                 called \cup {i})

\* ProbeDeviceMap: probe is what Probe returns
ProbeDeviceMap(probe, xfsProbe) ==
  IF probe.err # Nil
  THEN [deviceMap |-> Nil, err |-> probe.err, probed |-> {}]
  ELSE LET r == ProbeFrom(probe.devices, xfsProbe, 1, [k \in {} |-> <<>>], {})
       IN [deviceMap |-> r.deviceMap, err |-> Nil, probed |-> r.probed]

\* the devices of the host as Probe returns them: of 1 GiB or of no size,
\* with at most one of the other attributes set
HostDevices(mm) ==
  LET d == Device(mm, 1024 * 1024 * 1024, <<>>) IN
  { d,
    [d EXCEPT !.size = 0],
    [d EXCEPT !.hidden = TRUE],
    [d EXCEPT !.partitioned = TRUE],
    [d EXCEPT !.holders = <<(<<100, 109, 45, 48>>)>>],
    [d EXCEPT !.swapOn = TRUE],
    [d EXCEPT !.cdrom = TRUE],
    [d EXCEPT !.readOnly = TRUE],
    [d EXCEPT !.mountPoints = <<(<<47, 97>>)>>] }

\* what Probe can return: sda alone, sda and sdb, or an error
ProbeResults ==
  { [devices |-> <<a>>, err |-> Nil] : a \in HostDevices(Sda) }
    \cup { [devices |-> <<a, b>>, err |-> Nil] :
             a \in HostDevices(Sda), b \in HostDevices(Sdb) }
    \cup { [devices |-> <<>>, err |-> ErrProbe] }

\* what xfs.Probe can return for a device: a filesystem of UUID u1 or u2,
\* no xfs filesystem, or another error
XFSProbeResults ==
  { [fsuuid |-> u, label |-> <<>>, totalCapacity |-> 1000,
     freeCapacity |-> 900, err |-> Nil] : u \in {UUID1, UUID2} }
    \cup { [fsuuid |-> <<>>, label |-> <<>>, totalCapacity |-> 0,
            freeCapacity |-> 0, err |-> e] : e \in {ErrFSNotFound, ErrAPI} }

\* the caller calls ProbeDeviceMap()
CallProbeDeviceMap ==
  /\ pPc = "start"
  /\ pMap' = ProbeDeviceMap(pDevices, pXFS)
  /\ pPc' = "done"
  /\ UNCHANGED <<pDevices, pLookup, pXFS, pReason>>
  /\ UNCHANGED nonProbeVars

InitProbe ==
  /\ HandlerIdle
  /\ MatcherIdle
  /\ UEventIdle
  /\ ListenerIdle
  /\ DeviceIdle
  /\ LedgerIdle
  /\ ChangeIdle
  /\ MoreIdle
  /\ pPc = "start"
  /\ pDevices \in ProbeResults
  /\ pXFS \in [1..Len(pDevices.devices) -> XFSProbeResults]
  /\ pLookup = Nil
  /\ pReason = <<>>
  /\ pMap = <<>>

NextProbe == CallProbeDeviceMap

SpecProbe == InitProbe /\ [][NextProbe]_vars

(***************************************************************************)
(* package initrequest: Lister.List and Lister.Get                         *)
(***************************************************************************)
\* the names of the InitRequests of the cluster
RequestNames == {"r1", "r2", "r3"}

\* Limit of the listing: lister.maxObjects
PageLimits == {1, 2}

\* the name selectors: one or two names
NameSelectors ==
  {l \in UNION {[1..n -> RequestNames] : n \in 1..2} :
     \A i, j \in 1..Len(l) : i # j => l[i] # l[j]}

\* the orders a listing may return a set of items in
RECURSIVE OrdersOf(_)
OrdersOf(S) ==
  IF S = {} THEN {<<>>}
  ELSE UNION {{<<x>> \o l : l \in OrdersOf(S \ {x})} : x \in S}

\* a list in pages of at most limit items; a listing of nothing is one
\* empty page
RECURSIVE PagesOf(_, _)
PagesOf(list, limit) ==
  IF Len(list) <= limit THEN <<list>>
  ELSE <<SubSeq(list, 1, limit)>>
         \o PagesOf(SubSeq(list, limit + 1, Len(list)), limit)

\* getOnly of List: labelled is whether a node or requestor selector is set
GetOnly(labelled, names) == ~labelled /\ Len(names) # 0

\* the inner loop of List over lister.initRequestNames for one item
ScanNames(names, item) ==
  [found |-> \E i \in 1..Len(names) : names[i] = item,
   values |-> SelectSeq(names, LAMBDA n : n # item)]

\* Sends with the item sent only when its name was found
Sends_FoundOnly(names, found) == found

\* if len(lister.initRequestNames) == 0 || found
Sends(names, found) == Len(names) = 0 \/ found

\* the loop of List over result.Items
RECURSIVE ScanItems(_, _, _)
ScanItems(items, names, sent) ==
  IF items = <<>> THEN [names |-> names, sent |-> sent]
  ELSE LET scan == ScanNames(names, Head(items)) IN
       ScanItems(Tail(items), scan.values,
                 IF Sends(scan.values, scan.found)
                 THEN Append(sent, Head(items)) ELSE sent)

\* the goroutine of List starts: past the listing when getOnly
StartList ==
  /\ qPc = "start"
  /\ qPc' = IF GetOnly(qSelector.labelled, qNames) THEN "get" ELSE "list"
  /\ UNCHANGED <<qSelector, qNames, qItems, qPages, qSent, qErr, qIdx>>
  /\ UNCHANGED <<onceVars, nodeVars, nonMoreVars>>

\* one round of the listing loop: List of a page, its items, and Continue
ListPage ==
  /\ qPc = "list"
  /\ \E ok \in BOOLEAN :
       IF ~ok
       THEN /\ qErr' = ErrAPI
            /\ qPc' = "closed"
            /\ UNCHANGED <<qNames, qPages, qSent>>
       ELSE LET r == ScanItems(Head(qPages), qNames, qSent) IN
            /\ qNames' = r.names
            /\ qSent' = r.sent
            /\ qPages' = Tail(qPages)
            /\ qPc' = IF Tail(qPages) = <<>> THEN "get" ELSE "list"
            /\ UNCHANGED qErr
  /\ UNCHANGED <<qSelector, qItems, qIdx>>
  /\ UNCHANGED <<onceVars, nodeVars, nonMoreVars>>

\* one round of the loop over the names left: Get and send
GetName ==
  /\ qPc = "get"
  /\ IF qIdx > Len(qNames)
     THEN /\ qPc' = "closed"
          /\ UNCHANGED <<qSent, qErr, qIdx>>
     ELSE \E ok \in BOOLEAN :
            IF ~ok
            THEN /\ qErr' = ErrNotFound
                 /\ qPc' = "closed"
                 /\ UNCHANGED <<qSent, qIdx>>
            ELSE /\ qSent' = Append(qSent, qNames[qIdx])
                 /\ qIdx' = qIdx + 1
                 /\ UNCHANGED <<qPc, qErr>>
  /\ UNCHANGED <<qSelector, qNames, qItems, qPages>>
  /\ UNCHANGED <<onceVars, nodeVars, nonMoreVars>>

\* the context is cancelled: the next send returns false and the goroutine
\* returns
CancelList ==
  /\ qPc \in {"list", "get"}
  /\ qPc' = "closed"
  /\ UNCHANGED <<qSelector, qNames, qItems, qPages, qSent, qErr, qIdx>>
  /\ UNCHANGED <<onceVars, nodeVars, nonMoreVars>>

InitLister ==
  /\ HandlerIdle
  /\ MatcherIdle
  /\ UEventIdle
  /\ ListenerIdle
  /\ OthersIdle
  /\ OnceIdle
  /\ NodeIdle
  /\ qPc = "start"
  /\ qSelector \in [names : NameSelectors, labelled : BOOLEAN]
  /\ qNames = qSelector.names
  /\ qItems \in SUBSET RequestNames
  /\ \E order \in OrdersOf(qItems), limit \in PageLimits :
       qPages = PagesOf(order, limit)
  /\ qSent = <<>>
  /\ qErr = Nil
  /\ qIdx = 1

NextLister ==
  \/ StartList
  \/ ListPage
  \/ GetName
  \/ CancelList

SpecLister == InitLister /\ [][NextLister]_vars

(***************************************************************************)
(* package client: Init                                                    *)
(***************************************************************************)
\* the goroutines that call client.Init
Callers == {"c1", "c2"}

\* atomic.AddInt32(&initialized, 1): the new value, wrapping as int32 does
AddInt32(x) == IF x = 2147483647 THEN -2147483647 - 1 ELSE x + 1

\* the test Init makes of the new value of the counter: this call is to run
\* the body
FirstCall(new) == new = 1

\* Init returns to caller c, which looks at the clients
InitReturn(c) ==
  /\ iPc' = [iPc EXCEPT ![c] = "out"]
  /\ iFound' = [iFound EXCEPT ![c] =
                  Append(@, [drive |-> driveClient', volume |-> volumeClient'])]

\* log.Fatalf and klog.Fatalf: the process exits, with all its goroutines
Fatal ==
  /\ iPc' = [c \in Callers |-> "exit"]
  /\ UNCHANGED iFound

\* caller c calls Init
InitCall(c) ==
  /\ iPc[c] = "out"
  /\ Len(iFound[c]) < MaxCalls
  /\ iPc' = [iPc EXCEPT ![c] = "add"]
  /\ UNCHANGED <<initialized, driveClient, volumeClient, iBodies, iFound>>
  /\ UNCHANGED <<listerVars, nodeVars, nonMoreVars>>

\* "if atomic.AddInt32(&initialized, 1) != 1 { return }"
InitAdd(c) ==
  /\ iPc[c] = "add"
  /\ initialized' = AddInt32(initialized)
  /\ UNCHANGED <<driveClient, volumeClient>>
  /\ IF FirstCall(initialized')
     THEN /\ iPc' = [iPc EXCEPT ![c] = "k8s"]
          /\ iBodies' = iBodies + 1
          /\ UNCHANGED iFound
     ELSE /\ InitReturn(c)
          /\ UNCHANGED iBodies
  /\ UNCHANGED <<listerVars, nodeVars, nonMoreVars>>

\* k8s.Init()
InitK8s(c) ==
  /\ iPc[c] = "k8s"
  /\ \E ok \in BOOLEAN :
       IF ok THEN iPc' = [iPc EXCEPT ![c] = "drive"] /\ UNCHANGED iFound
       ELSE Fatal
  /\ UNCHANGED <<initialized, driveClient, volumeClient, iBodies>>
  /\ UNCHANGED <<listerVars, nodeVars, nonMoreVars>>

\* driveClient, err = DirectCSIDriveInterfaceForConfig(k8s.KubeConfig())
InitDriveClient(c) ==
  /\ iPc[c] = "drive"
  /\ \E ok \in BOOLEAN :
       IF ok
       THEN /\ driveClient' = TRUE
            /\ iPc' = [iPc EXCEPT ![c] = "volume"]
            /\ UNCHANGED iFound
       ELSE /\ Fatal
            /\ UNCHANGED driveClient
  /\ UNCHANGED <<initialized, volumeClient, iBodies>>
  /\ UNCHANGED <<listerVars, nodeVars, nonMoreVars>>

\* volumeClient, err = DirectCSIVolumeInterfaceForConfig(k8s.KubeConfig()),
\* and the return of Init
InitVolumeClient(c) ==
  /\ iPc[c] = "volume"
  /\ \E ok \in BOOLEAN :
       IF ok
       THEN /\ volumeClient' = TRUE
            /\ UNCHANGED driveClient
            /\ InitReturn(c)
       ELSE /\ Fatal
            /\ UNCHANGED <<driveClient, volumeClient>>
  /\ UNCHANGED <<initialized, iBodies>>
  /\ UNCHANGED <<listerVars, nodeVars, nonMoreVars>>

InitOnce ==
  /\ HandlerIdle
  /\ MatcherIdle
  /\ UEventIdle
  /\ ListenerIdle
  /\ OthersIdle
  /\ ListerIdle
  /\ NodeIdle
  /\ initialized = 0
  /\ driveClient = FALSE
  /\ volumeClient = FALSE
  /\ iPc = [c \in Callers |-> "out"]
  /\ iBodies = 0
  /\ iFound = [c \in Callers |-> <<>>]

NextOnce ==
  \/ \E c \in Callers : InitCall(c)
  \/ \E c \in Callers : InitAdd(c)
  \/ \E c \in Callers : InitK8s(c)
  \/ \E c \in Callers : InitDriveClient(c)
  \/ \E c \in Callers : InitVolumeClient(c)

SpecOnce == InitOnce /\ [][NextOnce]_vars

(***************************************************************************)
(* package node: the node handler and Sync                                 *)
(***************************************************************************)
\* what device.Probe() can return: an error, or the devices of the host
ProbeOutcomes ==
  {[err |-> ErrProbe, devices |-> <<>>]}
    \cup {[err |-> Nil, devices |-> l] :
            l \in {<<>>, <<Device(Sda, 1, <<>>)>>,
                   <<Device(Sda, 1, <<>>), Device(Sdb, 1, <<>>)>>}}

\* Sync: the loop over probedDevices that builds devices
NodeDevices(probedDevices) ==
  [i \in 1..Len(probedDevices) |-> ToNodeDevice(probedDevices[i], nodeID)]

\* types.NewNode(nodeID, devices), stored under a new version
NewNode(node, devices, version) ==
  [exists |-> TRUE, name |-> node, refresh |-> FALSE, devices |-> devices,
   version |-> version]

\* createOrUpdateNode that leaves Spec.Refresh as it found it
Refreshed_KeepFlag(node, devices) ==
  [node EXCEPT !.devices = devices]

\* createOrUpdateNode: what it makes of the Node it has fetched
Refreshed(node, devices) ==
  [node EXCEPT !.devices = devices, !.refresh = FALSE]

\* the controller hands the handler an event of the type with the object as
\* it was written
Deliver(queue_, type, node) ==
  queue_ \cup {[type |-> type, refresh |-> node.refresh,
               version |-> node.version]}

\* Handle of an event with a Sync that has the node's Refresh tested
RunsSync_Always(e) == e.type = "Update"

\* Handle: "case controller.UpdateEvent" and "if node.Spec.Refresh"
RunsSync(e) == e.type = "Update" /\ e.refresh

\* ---- other clients ----
\* a client asks for a refresh: it sets Spec.Refresh of the Node
RequestRefresh ==
  /\ nOps < MaxNodeOps
  /\ nNode.exists
  /\ ~nNode.refresh
  /\ nNode' = [nNode EXCEPT !.refresh = TRUE, !.version = @ + 1]
  /\ nQueue' = Deliver(nQueue, "Update", nNode')
  /\ nOps' = nOps + 1
  /\ UNCHANGED <<nPc, nEv, nDevices, nTries, nRet, nGot>>
  /\ UNCHANGED <<listerVars, onceVars, nonMoreVars>>

\* a client updates the Node and leaves Spec.Refresh as it is
OtherUpdate ==
  /\ nOps < MaxNodeOps
  /\ nNode.exists
  /\ nNode' = [nNode EXCEPT !.version = @ + 1]
  /\ nQueue' = Deliver(nQueue, "Update", nNode')
  /\ nOps' = nOps + 1
  /\ UNCHANGED <<nPc, nEv, nDevices, nTries, nRet, nGot>>
  /\ UNCHANGED <<listerVars, onceVars, nonMoreVars>>

\* a client deletes the Node
DeleteNode ==
  /\ nOps < MaxNodeOps
  /\ nNode.exists
  /\ nNode' = [nNode EXCEPT !.exists = FALSE, !.refresh = FALSE,
                            !.devices = <<>>, !.version = @ + 1]
  /\ nQueue' = Deliver(nQueue, "Delete", nNode')
  /\ nOps' = nOps + 1
  /\ UNCHANGED <<nPc, nEv, nDevices, nTries, nRet, nGot>>
  /\ UNCHANGED <<listerVars, onceVars, nonMoreVars>>

\* ---- the handler ----
\* Handle and Sync return
NodeReturn(e) ==
  /\ nPc' = "idle"
  /\ nRet' = [done |-> TRUE, err |-> e]
  /\ nGot' = Nil
  /\ nTries' = 0

\* nodeEventHandler.Handle takes an event
NodeHandle ==
  /\ nPc = "idle"
  /\ \E e \in nQueue :
       /\ nQueue' = nQueue \ {e}
       /\ nEv' = e
       /\ IF RunsSync(e)
          THEN /\ nPc' = "probe"
               /\ nRet' = [done |-> FALSE, err |-> Nil]
               /\ UNCHANGED <<nGot, nTries>>
          ELSE NodeReturn(Nil)
  /\ UNCHANGED <<nNode, nDevices, nOps>>
  /\ UNCHANGED <<listerVars, onceVars, nonMoreVars>>

\* Sync: device.Probe() and the list of devices
SyncProbe ==
  /\ nPc = "probe"
  /\ \E r \in ProbeOutcomes :
       IF r.err # Nil
       THEN /\ NodeReturn(r.err)
            /\ UNCHANGED nDevices
       ELSE /\ nDevices' = NodeDevices(r.devices)
            /\ nPc' = "get"
            /\ nTries' = 0
            /\ UNCHANGED <<nRet, nGot>>
  /\ UNCHANGED <<nNode, nQueue, nEv, nOps>>
  /\ UNCHANGED <<listerVars, onceVars, nonMoreVars>>

\* createOrUpdateNode: the Get, and the Create of a Node that is not found
NodeGet ==
  /\ nPc = "get"
  /\ IF ~nNode.exists
     THEN /\ nNode' = NewNode(nodeID, nDevices, nNode.version + 1)
          /\ nQueue' = Deliver(nQueue, "Add", nNode')
          /\ NodeReturn(Nil)
     ELSE /\ nGot' = nNode
          /\ nPc' = "update"
          /\ UNCHANGED <<nNode, nQueue, nRet, nTries>>
  /\ UNCHANGED <<nEv, nDevices, nOps>>
  /\ UNCHANGED <<listerVars, onceVars, nonMoreVars>>

\* createOrUpdateNode: the Update; retry.RetryOnConflict calls the closure
\* again after a conflict, RetrySteps times at most
NodeUpdate ==
  /\ nPc = "update"
  /\ IF ~nNode.exists
     THEN /\ NodeReturn(ErrNotFound)
          /\ UNCHANGED <<nNode, nQueue>>
     ELSE IF nGot.version = nNode.version
     THEN /\ nNode' = Updated(Refreshed(nGot, nDevices))
          /\ nQueue' = Deliver(nQueue, "Update", nNode')
          /\ NodeReturn(Nil)
     ELSE IF nTries + 1 >= RetrySteps
     THEN /\ NodeReturn(ErrConflict)
          /\ UNCHANGED <<nNode, nQueue>>
     ELSE /\ nTries' = nTries + 1
          /\ nPc' = "get"
          /\ nGot' = Nil
          /\ UNCHANGED <<nNode, nQueue, nRet>>
  /\ UNCHANGED <<nEv, nDevices, nOps>>
  /\ UNCHANGED <<listerVars, onceVars, nonMoreVars>>

\* the controller has started: the Node of this host is listed
InitNode ==
  /\ HandlerIdle
  /\ MatcherIdle
  /\ UEventIdle
  /\ ListenerIdle
  /\ OthersIdle
  /\ ListerIdle
  /\ OnceIdle
  /\ nNode = NewNode(nodeID, <<>>, 1)
  /\ nQueue = Deliver({}, "Add", nNode)
  /\ nPc = "idle"
  /\ nEv = Nil
  /\ nDevices = <<>>
  /\ nTries = 0
  /\ nRet = [done |-> FALSE, err |-> Nil]
  /\ nGot = Nil
  /\ nOps = 0

NextNode ==
  \/ RequestRefresh
  \/ OtherUpdate
  \/ DeleteNode
  \/ NodeHandle
  \/ SyncProbe
  \/ NodeGet
  \/ NodeUpdate

SpecNode == InitNode /\ [][NextNode]_vars

\* the handler and its Sync always get their next turn
SpecNodeFair ==
  SpecNode /\ WF_vars(NodeHandle) /\ WF_vars(SyncProbe) /\ WF_vars(NodeGet)
           /\ WF_vars(NodeUpdate)

(***************************************************************************)
(* Properties of the single-device pipeline and of the batch               *)
(***************************************************************************)
StageOrder ==
  <<"getMounts", "makeFS", "mount", "symlink", "makeMetaDir", "writeFile", "create">>

MetaStages == {"symlink", "makeMetaDir", "writeFile"}

IsStage(c) == c # "unmount"
StagesOf(calls) == SelectSeq(calls, IsStage)
Count(s, x) == Cardinality({k \in 1..Len(s) : s[k] = x})
IsPrefix(s, t) == Len(s) <= Len(t) /\ s = SubSeq(t, 1, Len(s))
Range(s) == {s[k] : k \in 1..Len(s)}

ErrCreateWrapped == <<"unable to create Drive CRD">> \o ErrCreate

\* the errors initDevice returns when stage st fails
ErrorsOfStage(st) ==
  CASE st = "getMounts" -> {ErrGetMounts, ErrMounted}
    [] st = "makeFS" -> {ErrMakeFS}
    [] st = "mount" -> {ErrMount}
    [] st \in MetaStages -> {StageError(st)}
    [] st = "create" -> {ErrCreateWrapped}

MountedAt(dir) == \E r \in hostMounts : r.mountPoint = dir

\* every pipeline of every worker
PipeIds == {wi \in AllWorkers \X (1..2) : wi[2] <= Len(pipe[wi[1]])}
PipeOf(wi) == pipe[wi[1]][wi[2]]

\* C1: the stages of initDevice are invoked in the order getMounts, makeFS,
\* mount, symlink, makeMetaDir, writeFile, create, none skipped or repeated;
\* a returned error is the error of the last stage invoked (no stage follows
\* a failed one); a failed mount returns the mount error and leaves no Drive;
\* every Drive record is Ready and its device is formatted, mounted and holds
\* the three metadata artifacts.
C1_StagesInOrder ==
  /\ \A wi \in PipeIds :
       LET p == PipeOf(wi)
           st == StagesOf(p.calls) IN
       /\ IsPrefix(st, StageOrder)
       /\ p.ret # Nil =>
            /\ st # <<>>
            /\ p.failed = st[Len(st)]
            /\ p.ret \in ErrorsOfStage(p.failed)
       /\ p.failed = "mount" =>
            /\ p.ret = ErrMount
            /\ \A d \in drives : d.id # p.fsuuid
  /\ \A d \in drives :
       /\ d.status = "Ready"
       /\ \E mm \in MajorMinors : DevName(mm) = d.name /\ hostFS[mm] # 0
       /\ MountedAt(GetDriveMountDir(d.fsuuid))
       /\ \A k \in MetaStages : <<d.fsuuid, k>> \in hostFiles

\* a mount failed after a successful format: the device is formatted and not
\* mounted, no Drive was made for it; the other pipeline made its Drive
C1_Witness ==
  \E wi \in PipeIds :
    /\ PipeOf(wi).pc = "done"
    /\ PipeOf(wi).failed = "mount"
    /\ hostFS[PipeOf(wi).majorMinor] = PipeOf(wi).fsuuid
    /\ ~MountedAt(GetDriveMountDir(PipeOf(wi).fsuuid))
    /\ drives # {}

\* C2: once initDevices has probed, a requested device that is not among the
\* probed ones has the result "device not found", one whose probed fingerprint
\* differs from the requested one has "device state changed", and for neither
\* a pipeline exists (no stage is ever invoked); a pipeline is launched only
\* for a device found with an equal fingerprint.
C2_PreChecks ==
  \A w \in AllWorkers :
    pc[w] = "wait" =>
      /\ Len(results[w]) = Len(devs[w])
      /\ Len(pipe[w]) = Len(devs[w])
      /\ \A i \in 1..Len(devs[w]) :
           LET d == devs[w][i]
               found == d.majorMinor \in DOMAIN probed[w] IN
           /\ ~found =>
                /\ results[w][i].error = <<"device not found">>
                /\ pipe[w][i] = NoPipe
           /\ (found /\ ID(probed[w][d.majorMinor], nodeID) # d.id) =>
                /\ results[w][i].error = <<"device state changed">>
                /\ pipe[w][i] = NoPipe
           /\ pipe[w][i].pc # "none" =>
                /\ found
                /\ ID(probed[w][d.majorMinor], nodeID) = d.id

\* a batch of two: the first device changed since the request, the second one
\* was launched and has been formatted
C2_Witness ==
  \E w \in AllWorkers :
    /\ pc[w] = "wait"
    /\ Len(devs[w]) = 2
    /\ results[w][1].error = <<"device state changed">>
    /\ pipe[w][1].calls = <<>>
    /\ "makeFS" \in Range(pipe[w][2].calls)

\* C3: when initDevice has returned: a failure of getMounts, makeFS or mount
\* invoked no unmount; a failure of symlink, makeMetaDir or writeFile invoked
\* unmount exactly once, as the last call, and the error returned is the
\* stage's own error; a full success invoked no unmount.
C3_CompensatingUnmount ==
  \A wi \in PipeIds :
    LET p == PipeOf(wi) IN
    /\ Count(p.calls, "unmount") <= 1
    /\ p.pc = "done" =>
         /\ p.failed \in {"getMounts", "makeFS", "mount"} =>
              Count(p.calls, "unmount") = 0
         /\ p.failed \in MetaStages =>
              /\ Count(p.calls, "unmount") = 1
              /\ p.calls[Len(p.calls)] = "unmount"
              /\ p.ret = StageError(p.failed)
         /\ p.failed = "" =>
              /\ p.ret = Nil
              /\ "create" \in Range(p.calls)
              /\ Count(p.calls, "unmount") = 0

\* symlink failed after the mount and the unmount failed as well
C3_Witness ==
  \E wi \in PipeIds :
    /\ PipeOf(wi).pc = "done"
    /\ PipeOf(wi).failed = "symlink"
    /\ PipeOf(wi).err = JoinErrors(ErrSymlink, ErrUnmount)
    /\ MountedAt(GetDriveMountDir(PipeOf(wi).fsuuid))

\* C4 (as claimed): when a stage after the mount failed and the unmount failed
\* too, the error initDevice returns, and the error of the device's result
\* slot, holds the stage's error and the unmount error.
C4_UnmountErrorAppended ==
  \A wi \in PipeIds :
    LET p == PipeOf(wi) IN
    (p.pc = "done" /\ p.failed \in MetaStages /\ Count(p.calls, "unmount") = 1
       /\ MountedAt(GetDriveMountDir(p.fsuuid))) =>
      /\ p.ret = JoinErrors(StageError(p.failed), ErrUnmount)
      /\ results[wi[1]][wi[2]].error = p.ret

\* C5 (as claimed): when the Drive create failed, no unmount is invoked and
\* the device stays mounted.
C5_NoUnmountOnCreateFailure ==
  \A wi \in PipeIds :
    LET p == PipeOf(wi) IN
    (p.pc = "done" /\ p.failed = "create") =>
      /\ Count(p.calls, "unmount") = 0
      /\ MountedAt(GetDriveMountDir(p.fsuuid))

\* C5 (amended): when the Drive create failed after all earlier stages
\* succeeded, initDevice returns the creation error, no Drive exists for the
\* device, and the deferred unmount is invoked exactly once: the device is
\* unmounted unless that unmount failed.
C5_UnmountOnCreateFailure ==
  \A wi \in PipeIds :
    LET p == PipeOf(wi) IN
    (p.pc = "done" /\ p.failed = "create") =>
      /\ p.ret = ErrCreateWrapped
      /\ StagesOf(p.calls) = StageOrder
      /\ Count(p.calls, "unmount") = 1
      /\ \A d \in drives : d.id # p.fsuuid
      /\ p.err = ErrCreate => ~MountedAt(GetDriveMountDir(p.fsuuid))

\* the create failed and the unmount that followed succeeded
C5_Witness ==
  \E wi \in PipeIds :
    /\ PipeOf(wi).pc = "done"
    /\ PipeOf(wi).failed = "create"
    /\ PipeOf(wi).err = ErrCreate
    /\ ~MountedAt(GetDriveMountDir(PipeOf(wi).fsuuid))

\* what the mount-conflict check leaves alone
C6_Untouched(p) ==
  /\ p.calls = <<"getMounts">>
  /\ p.pc = "done"
  /\ p.ret \in {ErrGetMounts, ErrMounted}
  /\ \A d \in drives : d.id # p.fresh
  /\ ~MountedAt(GetDriveMountDir(p.fresh))
  /\ \A mm \in MajorMinors : hostFS[mm] # p.fresh
  /\ \A f \in hostFiles : f[1] # p.fresh

\* C6: a pipeline that leaves the mount-conflict check while the mount table
\* holds a mount point of its device fails in that step, which changes
\* neither the host nor the cluster; and a pipeline failed by the check (a
\* mounted device, or an unreadable mount table) has invoked nothing but
\* getMounts and never does.
C6_MountedDeviceUntouched ==
  /\ [](\A wi \in PipeIds : PipeOf(wi).failed = "getMounts" => C6_Untouched(PipeOf(wi)))
  /\ [][\A w \in AllWorkers : \A i \in 1..Len(pipe[w]) :
          ( /\ pipe[w][i].pc = "getMounts"
            /\ i <= Len(pipe'[w])
            /\ pipe'[w][i].pc # "getMounts"
            /\ HostMountPoints(pipe[w][i].majorMinor) # {} )
          => /\ pipe'[w][i].failed = "getMounts"
             /\ pipe'[w][i].ret # Nil
             /\ UNCHANGED <<hostMounts, hostFS, hostFiles, drives, store>>]_vars

\* the check met a device that was mounted in the meantime
C6_Witness ==
  \E wi \in PipeIds :
    /\ PipeOf(wi).pc = "done"
    /\ PipeOf(wi).ret = ErrMounted
    /\ HostMountPoints(PipeOf(wi).majorMinor) # {}


(***************************************************************************)
(* Properties of Handle                                                    *)
(***************************************************************************)
\* the event a worker handles needs no work of this node
NothingToDo(e) ==
  \/ e.type \notin {"Add", "Update", "Sync"}
  \/ nodeID \in DOMAIN e.obj.response
  \/ nodeID \notin DOMAIN e.obj.request

\* C7: while and after Handle handles an event of another type than Add,
\* Update and Sync, or one whose object already holds this node's response or
\* holds no request of this node, the handler has probed no device, has run no
\* pipeline, has read and written nothing in the cluster, never holds the
\* mutex past the early return, and returns success.
C7_NothingToDo ==
  \A w \in AllWorkers :
    (ev[w].type # "" /\ NothingToDo(ev[w])) =>
      /\ pc[w] \in {"idle", "lock"}
      /\ mutex # w
      /\ hcalls[w] = <<>>
      /\ batches[w] = 0
      /\ pipe[w] = <<>>
      /\ pc[w] = "idle" => hret[w] = [done |-> TRUE, err |-> Nil]

\* Handle returned early on an Add, Update or Sync event whose object holds
\* a request of this node and already its response
C7_Witness ==
  \E w \in AllWorkers :
    /\ ev[w].type \in {"Add", "Update", "Sync"}
    /\ nodeID \in DOMAIN ev[w].obj.request
    /\ nodeID \in DOMAIN ev[w].obj.response
    /\ hret[w].done

\* the calls of one Handle: at most one probe, then attempts of Get, Update
C8_CallsShape(w) ==
  LET c == hcalls[w] IN
  /\ batches[w] <= 1
  /\ Count(c, "getDevices") = batches[w]
  /\ \A k \in 1..Len(c) :
       /\ c[k] = "getDevices" => k = 1
       /\ c[k] = "Update" => k > 1 /\ c[k - 1] = "Get"
       /\ c[k] = "Get" => k > 1 /\ c[k - 1] \in {"getDevices", "Update"}
  /\ batches[w] = 1 =>
       /\ Count(c, "Get") = attempts[w]
       /\ attempts[w] <= RetrySteps
  /\ (hret[w].done /\ hret[w].err = ErrConflict) =>
       /\ attempts[w] = RetrySteps
       /\ c[Len(c)] = "Update"

\* a step of the retry loop of worker w
C8_Attempt(w) ==
  /\ hcalls'[w] = Append(hcalls[w], "Get") =>
       /\ store' = store
       /\ ~store.exists => hret'[w] = [done |-> TRUE, err |-> Nil]
       /\ pc'[w] = "update" => fetched'[w] = store
       /\ pc'[w] \in {"update", "idle"}
  /\ hcalls'[w] = Append(hcalls[w], "Update") =>
       /\ store' # store =>
            /\ fetched[w].version = store.version
            /\ store'.version = store.version + 1
            /\ DOMAIN store'.response = DOMAIN fetched[w].response \cup {nodeID}
            /\ store'.response[nodeID] = initResult[w]
            /\ \A n \in DOMAIN fetched[w].response \ {nodeID} :
                 store'.response[n] = fetched[w].response[n]
            /\ store'.request = fetched[w].request
            /\ hret'[w] = [done |-> TRUE, err |-> Nil]
       /\ (store.exists /\ fetched[w].version # store.version) =>
            /\ store' = store
            /\ IF attempts[w] < RetrySteps
               THEN pc'[w] = "get" /\ ~hret'[w].done
               ELSE hret'[w] = [done |-> TRUE, err |-> ErrConflict]

Before(a, b) == a[1] < b[1] \/ (a[1] = b[1] /\ a[2] < b[2])

\* C9: the evaluations of a chain go through the matchers in the order of
\* the list, and within a matcher through the candidates in their order; the
\* first answer (match = true, continue = false) ends the chain: the
\* candidate evaluated is then the only one left, it is what runMatcher
\* decides on, and no matcher is evaluated for any candidate afterwards.
C9_OrderAndShortCircuit ==
  /\ [](mCut # 0 =>
          /\ mPc \in {"matched", "done"}
          /\ Len(mCur) = 1
          /\ mLast[1] = mCut
          /\ mPc = "done" =>
               /\ mRet.drive = mCur[1]
               /\ mRet.result \in {"nochange", "changed"})
  /\ [][ /\ mLast' # mLast =>
              /\ mCut = 0
              /\ Before(mLast, mLast')
              /\ mLast'[1] \in 1..Len(matchers)
              /\ mLast' = <<mIdx, mPos>>
              /\ mCut' # 0 => mCur' = <<mCur[mPos]>> /\ mCut' = mIdx
         /\ mCut # 0 => UNCHANGED <<mCut, mCur, mLast, mIdx>> ]_vars

\* the third matcher or a later one declared a full match of the first of
\* two candidates left, and runMatcher has returned
C9_Witness ==
  /\ mPc = "done"
  /\ mCut > 2
  /\ mCut < Len(matchers)
  /\ mLast = <<mCut, 1>>
  /\ Len(mDrives) = 2
  /\ mRet.drive = mDrives[2]

\* C10 (as claimed): when no matcher matched any of two or more candidate
\* drives, all of them are left after the chain and runMatcher returns
\* "toomanymatches".
C10_UnmatchedDrivesSurvive ==
  (mPc = "done" /\ Len(mDrives) >= 2 /\ ~mAnyMatch) =>
    /\ mCur = mDrives
    /\ mRet.result = "toomanymatches"


\* C11: when runMatcher has returned, its outcome follows the number of
\* candidates the chain left: none (an empty drive list included) gives
\* "nomatch" and no drive; one gives that drive, with "nochange" exactly when
\* the non-host and the host comparison both held and "changed" otherwise;
\* more than one gives "toomanymatches" and no drive.
C11_OutcomeByCount ==
  mPc = "done" =>
    /\ Len(mDrives) = 0 => Len(mCur) = 0
    /\ Len(mCur) = 0 => mRet = [drive |-> "", result |-> "nomatch"] /\ ~mValid.called
    /\ Len(mCur) = 1 =>
         /\ mValid.called
         /\ mRet.drive = mCur[1]
         /\ mRet.result = IF mValid.nonHost /\ mValid.host THEN "nochange" ELSE "changed"
    /\ Len(mCur) > 1 =>
         /\ mRet = [drive |-> "", result |-> "toomanymatches"]
         /\ ~mValid.called

\* two candidates were left after the whole chain
C11_Witness ==
  /\ mPc = "done"
  /\ Len(mCur) = 2
  /\ mCut = 0
  /\ mLast[1] = Len(matchers)
  /\ mRet.result = "toomanymatches"


(***************************************************************************)
(* Properties of the uevent decoder                                        *)
(***************************************************************************)
\* the header of buf is valid: signature, magic and payload offset
ValidHeader(buf) ==
  /\ Len(buf) >= 8
  /\ \A i \in 1..8 : buf[i] = libudev[i]
  /\ Len(buf) >= 12
  /\ <<buf[9], buf[10], buf[11], buf[12]>> = <<254, 237, 202, 254>>
  /\ Len(buf) >= 17
  /\ buf[17] >= 17
  /\ buf[17] <= Len(buf)

\* C12 (as claimed): for every buffer, parse returns a mapping if the header
\* is valid and an error and no mapping otherwise; with the signature
\* present, a mismatched magic gives the magic-mismatch error and, with the
\* magic right, an offset of 16 or less gives the offset error.
C12_ParseValidatesHeader ==
  uPc = "parsed" =>
    /\ ValidHeader(uBuf) => uRes.kind = "ok"
    /\ ~ValidHeader(uBuf) => uRes.kind = "error" /\ uRes.event = <<>>


\* the mapping a list of <<key, value>> with distinct keys stands for
MappingOf(fields) ==
  [k \in {fields[i][1] : i \in 1..Len(fields)} |->
     fields[CHOOSE i \in 1..Len(fields) : fields[i][1] = k][2]]

\* C13: a mapping with non-empty keys free of "=" and NUL and values free of
\* NUL, its fields sent in any order as KEY=VALUE or as the bare KEY for an
\* empty value, with a NUL between them, behind a valid header, is decoded by
\* parse to exactly that mapping: empty fields are skipped and a field is
\* split at its first "=" only.
C13_RoundTrip ==
  uPc = "parsed" =>
    /\ uRes.kind = "ok"
    /\ DOMAIN uRes.event = {uFields[i][1] : i \in 1..Len(uFields)}
    /\ uRes.event = MappingOf(uFields)

\* two fields, B before A: B's value holds "=", A's value is empty, and the
\* payload ends with a NUL, which makes an empty field
C13_Witness ==
  /\ uPc = "parsed"
  /\ uFields = << <<(<<66>>), <<120, 61, 121>> >>, <<(<<65>>), <<>> >> >>
  /\ uBuf[Len(uBuf)] = 0
  /\ uRes.event[<<66>>] = <<120, 61, 121>>
  /\ uRes.event[<<65>>] = <<>>

\* an optional sign and one or more decimal digits
Numeric(v) ==
  LET digits == IF v # <<>> /\ v[1] \in {43, 45} THEN Tail(v) ELSE v IN
  /\ digits # <<>>
  /\ \A i \in 1..Len(digits) : digits[i] \in 48..57

\* C14: parseUEvent of a decoded mapping returns a device event only if
\* SUBSYSTEM is block, ACTION is add, change or remove, DEVPATH is not empty
\* and MAJOR and MINOR are numeric; a SUBSYSTEM other than block gives
\* errNonDeviceEvent whatever the other fields are; with SUBSYSTEM block, an
\* unknown action, an empty device path or a non-numeric major or minor gives
\* another error, and no event.
C14_DeviceEventChecks ==
  uPc = "event" =>
    LET m == MappingOf(uFields)
        subsystem == Lookup(m, KeySubsystem)
        act == Lookup(m, KeyAction)
        path == Lookup(m, KeyDevPath)
        wellFormed == /\ act \in {<<97, 100, 100>>, <<99, 104, 97, 110, 103, 101>>, <<114, 101, 109, 111, 118, 101>>}
                      /\ path # <<>>
                      /\ Numeric(Lookup(m, KeyMajor))
                      /\ Numeric(Lookup(m, KeyMinor)) IN
    /\ uEv.kind \in {"ok", "error"}
    /\ uEv.kind = "ok" =>
         /\ subsystem = <<98, 108, 111, 99, 107>>
         /\ wellFormed
         /\ uEv.action = act
    /\ subsystem # <<98, 108, 111, 99, 107>> =>
         uEv = [kind |-> "error", err |-> "errNonDeviceEvent", action |-> <<>>,
                devPath |-> <<>>, major |-> 0, minor |-> 0]
    /\ (subsystem = <<98, 108, 111, 99, 107>> /\ ~wellFormed) =>
         /\ uEv.kind = "error"
         /\ uEv.err \in {"invalid device action", "invalid path",
                         "strconv.Atoi: MAJOR", "strconv.Atoi: MINOR"}
         /\ uEv.action = <<>> /\ uEv.devPath = <<>>

\* a network event with an unknown action, no device path and a bad major
C14_Witness ==
  /\ uPc = "event"
  /\ uEv.err = "errNonDeviceEvent"
  /\ uFields = << <<KeySubsystem, <<110, 101, 116>>>>, <<KeyAction, <<109, 111, 118, 101>>>>,
                  <<KeyMajor, <<120>>>>, <<KeyMinor, <<49, 54>>>> >>


(***************************************************************************)
(* Properties of the listener                                              *)
(***************************************************************************)
\* C15: readMsg returns a buffer only when the consuming read returned as
\* many bytes as the peek before it reported, and that buffer has this many
\* bytes; when the consuming read returned another count, readMsg returns
\* errShortRead and no buffer, and delivers nothing.  (Messages are not
\* empty, so a count of zero says that no consuming read returned yet.)
C15_ShortRead ==
  /\ [](lRet.done =>
          /\ lRet.err = "" =>
               lReadN = lPeekN /\ Len(lRet.buf) = lPeekN /\ lPeekN > 0
          /\ (lReadN # 0 /\ lReadN # lPeekN) =>
               lRet.err = "errShortRead" /\ lRet.buf = <<>>)
  /\ [][(lPc = "read" /\ lReadN' # 0 /\ lReadN' # lPeekN) =>
          lDelivered' = lDelivered]_vars

\* the message peeked was taken by another reader and the consuming read
\* met a shorter one
C15_Witness ==
  /\ lRet.done
  /\ lRet.err = "errShortRead"
  /\ lReadN # 0
  /\ lReadN < lPeekN

\* C16 (as claimed): after the context is cancelled or the listener closed,
\* readMsg makes no socket call any more, neither a peek nor a consuming
\* read, and what it returns is a cancellation error and no buffer.
C16_CancelAborts ==
  /\ ~lLate
  /\ (lRet.done /\ Cancelled /\ lPc = "idle" /\ lReadN # 0) => lRet.err # ""

\* C17: with the listener the only reader of its socket, the buffers that
\* readMsg calls have returned, followed by the messages still pending, are
\* the messages that arrived, in their order and with their whole content: a
\* peek takes nothing from the socket, and the consuming read takes the
\* message that was peeked.
C17_ArrivalOrder ==
  /\ [](/\ lArrived = lDelivered \o lQueue
        /\ lPc = "read" => lBuf = Head(lQueue))
  /\ [][/\ lPeekN' # lPeekN => lQueue' = lQueue
        /\ lDelivered' # lDelivered =>
             /\ lQueue' = Tail(lQueue)
             /\ lDelivered' = Append(lDelivered, Head(lQueue))]_vars

\* two messages, the first one longer than a page, were returned in order
C17_Witness ==
  /\ Len(lDelivered) = 2
  /\ Len(lDelivered[1]) > PageSize
  /\ lDelivered = lArrived
  /\ lQueue = <<>>


(***************************************************************************)
(* Properties of the Device fingerprint                                    *)
(***************************************************************************)
\* t holds the elements of s, each as many times
Permuted(s, t) ==
  /\ Len(s) = Len(t)
  /\ \A x \in Range(s) \cup Range(t) : Count(s, x) = Count(t, x)

\* a Device without its two lists
Scalars(d) == [d EXCEPT !.holders = <<>>, !.mountPoints = <<>>]

\* C18: two snapshots taken on one node that differ only in the order of
\* Holders and of MountPoints have the same fingerprint, and a fingerprint
\* is majorMinor, "$" and the encoded digest.
C18_PermutationInvariant ==
  dPc = "done" =>
    /\ ( /\ Scalars(dGiven[1]) = Scalars(dGiven[2])
         /\ Permuted(dGiven[1].holders, dGiven[2].holders)
         /\ Permuted(dGiven[1].mountPoints, dGiven[2].mountPoints) )
       => dID = dNodeDev.id
    /\ Len(dID) = 3
    /\ dID[1] = dGiven[1].majorMinor
    /\ dID[2] = <<36>>
    /\ dID[3] # <<>>

\* both lists of two elements, in the opposite order in the two snapshots
C18_Witness ==
  /\ dPc = "done"
  /\ Scalars(dGiven[1]) = Scalars(dGiven[2])
  /\ Len(dGiven[1].holders) = 2
  /\ Len(dGiven[1].mountPoints) = 2
  /\ dGiven[2].holders = <<dGiven[1].holders[2], dGiven[1].holders[1]>>
  /\ dGiven[2].mountPoints = <<dGiven[1].mountPoints[2], dGiven[1].mountPoints[1]>>
  /\ dID = dNodeDev.id

\* the comparison attributes of two snapshots are equal
SameAttributes(a, b) ==
  /\ Scalars(a) = Scalars(b)
  /\ Range(a.holders) = Range(b.holders)
  /\ Range(a.mountPoints) = Range(b.mountPoints)

\* C19 (as claimed): for two snapshots taken on one node, the strings that
\* are hashed are equal if and only if name, major:minor, size, the flags,
\* the set of holders, the set of mount points, the device-mapper name and
\* the udev data are all equal.
C19_SensitiveToEveryAttribute ==
  dPc = "done" =>
    ((dID[3] = dNodeDev.id[3]) <=> SameAttributes(dGiven[1], dGiven[2]))

\* C20 (as claimed): ID and ToNodeDevice leave the caller's Device as it
\* was, the order of Holders and MountPoints included.
C20_PureRead ==
  /\ dPc \in {"one", "done"} => dDev = dGiven[1]
  /\ dPc = "done" => dOther = dGiven[2]

(***************************************************************************)
(* Properties of the capacity ledger                                       *)
(***************************************************************************)
\* the existing Volumes the volume finalizers of the Drive name
LiveVolumes ==
  {n \in VolNames : /\ StringIn(kDrive.finalizers, VolumeFinalizer(n))
                    /\ kVolumes[n].exists}

RECURSIVE SumOver(_)
SumOver(S) ==
  IF S = {} THEN 0
  ELSE LET n == CHOOSE x \in S : TRUE
       IN kVolumes[n].capacity + SumOver(S \ {n})

\* checkDrives has returned nil from a capacity check with repair of a drive
\* listed InUse, and no other client has changed a record meanwhile
RepairedQuietly ==
  /\ kPc = "done"
  /\ kFlags.capacity
  /\ kFlags.repair
  /\ kListed = "InUse"
  /\ kErr = Nil
  /\ ~kChanged

RemovesQuietly == kPc = "set_update" /\ kPc' = "capacity" /\ ~kChanged'

\* checkDrives has recomputed the allocated capacity of a drive listed InUse
Recomputes ==
  /\ kPc = "capacity"
  /\ kPc' # "capacity"
  /\ kFlags.capacity
  /\ kListed = "InUse"
  /\ kErr' = Nil

\* the finalizer names a Volume that no longer exists
NamesMissing(f) == HasVolumePrefix(f) /\ ~kVolumes[TrimVolumePrefix(f)].exists

\* the finalizer names a Volume that exists and is recorded on another Drive
NamesForeign(f) ==
  /\ HasVolumePrefix(f)
  /\ kVolumes[TrimVolumePrefix(f)].exists
  /\ kVolumes[TrimVolumePrefix(f)].drive # kDrive.name

\* a status of Ready follows when no volume finalizer is left
ReadyWhenNoneLeft ==
  (\A j \in 1..Len(kDrive'.finalizers) :
      ~HasVolumePrefix(kDrive'.finalizers[j]))
    => kDrive'.status = "Ready"

C23_WithinTotalCapacity ==
  (RepairedQuietly /\ kFlags.checkFinalizer) =>
    /\ SumOver(LiveVolumes) <= kDrive.total
    /\ kWrote <= kDrive.total

\* the Drive that two runs of removeUnexpectedFinalizers leave has the
\* finalizers and the status of the Drive that one run leaves
TwiceIsOnce ==
  LET once == removeUnexpectedFinalizers(kDrive, kVolumes)
      twice == removeUnexpectedFinalizers(once, kVolumes)
  IN twice.finalizers = once.finalizers /\ twice.status = once.status

\* C24: with the Volume records unchanged, removeUnexpectedFinalizers run
\* twice on a Drive leaves the finalizers and the drive status that one run
\* leaves: the second run changes neither, be it the second of two runs of
\* checkDrives or run again on any Drive the tools can reach.
C24_RemovalIdempotent ==
  /\ []TwiceIsOnce
  /\ [][(kPc = "set_update" /\ kPc' = "capacity" /\ kRuns > 0) =>
          /\ kDrive'.finalizers = kDrive.finalizers
          /\ kDrive'.status = kDrive.status]_vars

\* removeUnexpectedFinalizers has run twice on the Drive, in two runs of
\* checkDrives, and no other client has changed a record in between
C24_Witness ==
  /\ kPc = "capacity"
  /\ kRuns = 2
  /\ kLast = 0
  /\ Len(kDrive.finalizers) > 1

\* the lookup failed, and not with not-found
Failed(lookup) == lookup.err # Nil /\ lookup.err # ErrNotFound

\* C25: isStaleVolume reports stale iff the Volume is not found and the
\* PersistentVolume of its name is not found or is Released or Failed; a
\* lookup error other than not-found is returned, with stale false.
C25_StaleIffBothGone ==
  kStale # Nil =>
    LET volume == kStale.volume
        pv == kStale.pv
        ret == kStale.ret
    IN /\ ret.stale <=>
            /\ volume.err = ErrNotFound
            /\ \/ pv.err = ErrNotFound
               \/ pv.err = Nil /\ pv.phase \in {"Released", "Failed"}
       /\ Failed(volume) => ret.err = volume.err
       /\ (volume.err = ErrNotFound /\ Failed(pv)) => ret.err = pv.err
       /\ ret.err # Nil =>
            /\ ~ret.stale
            /\ Failed(volume) \/ (volume.err = ErrNotFound /\ Failed(pv))

\* isStaleVolume has found a volume stale whose PersistentVolume exists
C25_Witness ==
  /\ kStale # Nil
  /\ kStale.ret.stale
  /\ kStale.pv.err = Nil
  /\ kStale.pv.phase = "Released"

\* the finalizers hold no finalizer twice
NoDuplicates(finalizers) ==
  \A i, j \in 1..Len(finalizers) :
    finalizers[i] = finalizers[j] => i = j

\* a volume finalizer is among the finalizers
HasVolumeFinalizer(finalizers) ==
  \E i \in 1..Len(finalizers) : HasVolumePrefix(finalizers[i])

\* C26: a Drive that starts without duplicate finalizers carries at most
\* one finalizer per Volume name after any sequence of fixDriveForVolume,
\* unsetExistingFinalizer, removeUnexpectedFinalizers and
\* dummyReleaseVolume, and none of them removes the data-protection
\* finalizer while a volume finalizer remains on the Drive.
C26_OneFinalizerPerVolume ==
  /\ [](NoDuplicates(kDrive.finalizers))
  /\ [][(/\ StringIn(kDrive.finalizers,
                      DirectCSIDriveFinalizerDataProtection)
         /\ HasVolumeFinalizer(kDrive'.finalizers))
        => StringIn(kDrive'.finalizers,
                    DirectCSIDriveFinalizerDataProtection)]_vars

\* fixDriveForVolume has updated the Drive, which carries the
\* data-protection finalizer and the finalizers of two Volumes
C26_Witness ==
  /\ sPc = "volume"
  /\ sTarget = ThisDrive
  /\ sVol.drive = OtherDrive
  /\ kDrive.version = 2
  /\ Len(kDrive.finalizers) = 3

(***************************************************************************)
(* Properties of the hotplug Change handler                                *)
(***************************************************************************)
\* C27: the Drive update of the Change handler is not a blind write: it is
\* applied to a version of the Drive fetched for the attempt, and on a
\* version conflict it is fetched again and retried, RetrySteps times at
\* most, instead of failing after one attempt or overwriting a newer
\* version.
C27_ChangeRetriesOnConflict ==
  (hPc = "done" /\ hResult.err = ErrConflict) => hResult.updates = RetrySteps

(***************************************************************************)
(* Properties of deniedReason                                              *)
(***************************************************************************)
\* the device deniedReason was called on
DeniedDevice == pDevices.devices[1]

\* the reasons that do not depend on the lookup, in the order of the
\* claim, each with whether it applies
OwnReasons(d) ==
  << <<d.size < 512 * 1024 * 1024, TooSmallReason>>,
     <<d.hidden, HiddenReason>>,
     <<d.readOnly, ReadOnlyReason>>,
     <<d.partitioned, PartitionedReason>>,
     <<d.holders # <<>>, HeldReason>>,
     <<d.mountPoints # <<>>, MountedReason>>,
     <<d.swapOn, SwapReason>>,
     <<d.cdrom, CDROMReason>> >>

\* the lookup answers for the UUID of the device with something other than
\* not-found: with a drive, or with another error
LookupDenies(asked) == asked /\ pLookup # ErrNotFound

LookupReason ==
  IF pLookup = Nil THEN UsedByReason
  ELSE InternalErrorPrefix \o ErrorText(pLookup)

RECURSIVE Applicable(_)
Applicable(table) ==
  IF table = <<>> THEN <<>>
  ELSE (IF table[1][1] THEN <<table[1][2]>> ELSE <<>>)
       \o Applicable(Tail(table))

\* deniedReason is empty iff no reason applies, and is otherwise all the
\* applicable reasons joined by "; ", where the lookup is asked when
\* `asked` holds of the device
DeniedReasonIs(asked) ==
  LET table == OwnReasons(DeniedDevice)
                 \o << <<LookupDenies(asked), LookupReason>> >>
      applicable == Applicable(table)
  IN /\ pReason = <<>> <=> \A i \in 1..Len(table) : ~table[i][1]
     /\ applicable # <<>> => pReason = Join(applicable, ReasonSeparator)

\* C28 (as stated): deniedReason is empty iff the device is none of: below
\* 512 MiB, hidden, read-only, partitioned, held, mounted, swap, CD-ROM, or
\* of a filesystem UUID for which the lookup returns other than not-found;
\* otherwise it is all applicable reasons joined by "; ", a found drive
\* giving the "used by" reason and another lookup error the internal-error
\* reason.
C28_DeniedReason ==
  pPc = "denied" => DeniedReasonIs(FSUUID(DeniedDevice) # <<>>)

\* C28 (amended): the same, the lookup being made for the filesystem UUID
\* of a device whose filesystem type is xfs only.
C28_DeniedReasonXFS ==
  pPc = "denied" =>
    DeniedReasonIs(FSType(DeniedDevice) = XFS /\ FSUUID(DeniedDevice) # <<>>)

\* a device of exactly 512 MiB with an xfs filesystem that a drive uses,
\* read-only and mounted: two reasons and the "used by" reason
C28_Witness ==
  /\ pPc = "denied"
  /\ DeniedDevice.size = 512 * 1024 * 1024
  /\ DeniedDevice.readOnly
  /\ DeniedDevice.mountPoints # <<>>
  /\ FSType(DeniedDevice) = XFS
  /\ FSUUID(DeniedDevice) # <<>>
  /\ pLookup = Nil
  /\ pReason = ReadOnlyReason \o ReasonSeparator \o MountedReason
                 \o ReasonSeparator \o UsedByReason

(***************************************************************************)
(* Properties of ProbeDeviceMap                                            *)
(***************************************************************************)
\* device i is in the returned map under the UUID its probe gave
InMap(i) ==
  /\ pXFS[i].fsuuid \in DOMAIN pMap.deviceMap
  /\ \E j \in 1..Len(pMap.deviceMap[pXFS[i].fsuuid]) :
       /\ pMap.deviceMap[pXFS[i].fsuuid][j].device = pDevices.devices[i]
       /\ pMap.deviceMap[pXFS[i].fsuuid][j].fsuuid = pXFS[i].fsuuid

\* device i is in the returned map under some UUID
InMapAnywhere(i) ==
  \E k \in DOMAIN pMap.deviceMap : \E j \in 1..Len(pMap.deviceMap[k]) :
    pMap.deviceMap[k][j].device = pDevices.devices[i]

\* ProbeDeviceMap has returned, Probe having given the devices
Probed == pPc = "done" /\ pDevices.err = Nil

\* every device is probed iff it is eligible, a probed device is in the
\* map iff its probe succeeded, no other device is in the map, and no
\* result of a probe makes ProbeDeviceMap fail
ProbesEligible(eligible(_)) ==
  Probed =>
    /\ pMap.err = Nil
    /\ \A i \in 1..Len(pDevices.devices) :
         /\ i \in pMap.probed <=> eligible(pDevices.devices[i])
         /\ i \in pMap.probed => (InMap(i) <=> pXFS[i].err = Nil)
         /\ i \notin pMap.probed => ~InMapAnywhere(i)

EligibleAsStated(dev) ==
  ~dev.hidden /\ ~dev.partitioned /\ dev.holders = <<>> /\ ~dev.swapOn
    /\ dev.size # 0

EligibleNoCDROM(dev) == EligibleAsStated(dev) /\ ~dev.cdrom

\* C29 (as stated): ProbeDeviceMap probes a device iff it is not hidden,
\* not partitioned, has no holders, is not swap and has non-zero size; a
\* probed device is in the returned map under its filesystem UUID iff its
\* probe succeeded; a failing probe only omits its device and never makes
\* ProbeDeviceMap fail or changes what happens to other devices.
C29_ProbesEligible == ProbesEligible(EligibleAsStated)

\* C29 (amended): the same, a CD-ROM device not being probed either.
C29_ProbesEligibleNoCDROM == ProbesEligible(EligibleNoCDROM)

\* sda's probe fails with an error other than filesystem-not-found and sdb,
\* probed as well, is in the map
C29_Witness ==
  /\ Probed
  /\ Len(pDevices.devices) = 2
  /\ pMap.probed = {1, 2}
  /\ pXFS[1].err = ErrAPI
  /\ pXFS[2].err = Nil
  /\ pMap.err = Nil
  /\ ~InMapAnywhere(1)
  /\ InMap(2)

(***************************************************************************)
(* Properties of a failed batch re-probe                                   *)
(***************************************************************************)
\* getDevices has failed in the Handle call of worker w, which has yet to
\* write the response
ProbeFailed(w) ==
  pc[w] \in {"get", "update"} /\ initResult[w].error = ErrProbe

\* the steps of worker w around a failed re-probe
C30_Step(w) ==
  \* the failing initDevices and all that follows it leave the devices, the
  \* filesystems, the metadata files and the Drives as they are
  /\ ProbeFailed(w)' =>
       UNCHANGED <<hostDev, hostFS, hostFiles, drives>>
  \* the write: this node's entry, not there before, is the InitResult of
  \* the error; the entries of other nodes stay
  /\ (ProbeFailed(w) /\ pc'[w] = "idle" /\ store' # store) =>
       /\ nodeID \notin DOMAIN store.response
       /\ DOMAIN store'.response = DOMAIN store.response \cup {nodeID}
       /\ store'.response[nodeID] =
            [completed |-> TRUE, devices |-> <<>>, error |-> ErrProbe]
       /\ \A n \in DOMAIN store.response :
            store'.response[n] = store.response[n]

\* C30: when the re-probe of the batch (getDevices) fails, no pipeline is
\* started for any requested device, the InitResult of the node has
\* Completed set, no per-device results and the error of the request, and
\* the write of the response records that error once: as the one error of
\* the node's entry, which the write creates.
C30_ProbeFailureAbortsBatch ==
  /\ [](\A w \in AllWorkers :
         ProbeFailed(w) =>
           /\ pipe[w] = <<>>
           /\ results[w] = <<>>
           /\ initResult[w] =
                [completed |-> TRUE, devices |-> <<>>, error |-> ErrProbe])
  /\ [][\A w \in AllWorkers : C30_Step(w)]_vars

\* the re-probe of a request of two devices failed and the response of the
\* node was written
C30_Witness ==
  \E w \in AllWorkers :
    /\ hret[w].done
    /\ hret[w].err = Nil
    /\ initResult[w].completed
    /\ initResult[w].error = ErrProbe
    /\ Len(ev[w].obj.request[nodeID]) = 2
    /\ store.exists
    /\ nodeID \in DOMAIN store.response
    /\ store.response[nodeID].error = ErrProbe

(***************************************************************************)
(* Properties of the lister                                                *)
(***************************************************************************)
\* C31: with a name selector and a node or requestor selector, what List
\* sends (and Get returns) are InitRequests whose name is in the name
\* selector, each at most once, whatever the pages of the listing hold.
C31_OnlySelectedNames ==
  qSelector # <<>> /\ qSelector.labelled =>
    /\ \A i \in 1..Len(qSent) :
         \E j \in 1..Len(qSelector.names) : qSent[i] = qSelector.names[j]
    /\ \A i, j \in 1..Len(qSent) : i # j => qSent[i] # qSent[j]

(***************************************************************************)
(* Properties of the concurrent pipelines of a batch                       *)
(***************************************************************************)
\* slot i of the results of worker w is what the pre-checks and pipeline i
\* have made of request i so far
SlotOf(w, i) ==
  /\ results[w][i].name = devs[w][i].name
  /\ pipe[w][i].pc = "none" =>
       /\ results[w][i].error # Nil
       /\ results[w][i].error = PreCheck(probed[w], devs[w][i])
  /\ pipe[w][i].pc \notin {"none", "done"} => results[w][i].error = Nil
  /\ pipe[w][i].pc = "done" => results[w][i].error = pipe[w][i].ret

\* a step that writes slot i is the return of pipeline i, and leaves the
\* other slots and pipelines as they are
C32_Write(w, i) ==
  (pc[w] = "wait" /\ pc'[w] = "wait" /\ results'[w][i] # results[w][i]) =>
    /\ pipe[w][i].pc \notin {"none", "done"}
    /\ pipe'[w][i].pc = "done"
    /\ results'[w][i].name = results[w][i].name
    /\ \A j \in 1..Len(devs[w]) :
         j # i => results'[w][j] = results[w][j] /\ pipe'[w][j] = pipe[w][j]

\* C32: in every interleaving of the pipelines of initDevices the results
\* have the length and order of the requests, results[i].Name is the name of
\* request i, results[i].Error is written by pipeline i alone (or by the
\* pre-checks of request i), and initDevices returns, with these results,
\* only when every launched pipeline has finished.
C32_OwnSlots ==
  /\ [](\A w \in AllWorkers :
         /\ pc[w] = "wait" =>
              /\ Len(results[w]) = Len(devs[w])
              /\ Len(pipe[w]) = Len(devs[w])
              /\ \A i \in 1..Len(devs[w]) : SlotOf(w, i)
         /\ pc[w] # "wait" =>
              \A i \in 1..Len(pipe[w]) : pipe[w][i].pc \in {"none", "done"}
         /\ (pc[w] \in {"get", "update"} /\ initResult[w].error = Nil) =>
              initResult[w].devices = results[w])
  /\ [][\A w \in AllWorkers : \A i \in 1..Len(devs[w]) : C32_Write(w, i)]_vars

\* the second of two pipelines has returned an error into its slot while the
\* first is still running
C32_Witness ==
  \E w \in AllWorkers :
    /\ pc[w] = "wait"
    /\ Len(devs[w]) = 2
    /\ pipe[w][2].pc = "done"
    /\ pipe[w][2].ret # Nil
    /\ results[w][2].error = pipe[w][2].ret
    /\ pipe[w][1].pc \notin {"none", "done"}
    /\ "makeFS" \in Range(pipe[w][1].calls)
    /\ results[w][1].error = Nil

(***************************************************************************)
(* Properties of two workers calling Handle                                *)
(***************************************************************************)
\* worker w is between the response-present check of Handle and the end of
\* its response write
InHandle(w) == pc[w] \in {"initDevices", "wait", "get", "update"}

\* C33: of any number of Handle invocations running concurrently on one
\* handler, at most one is between its response-present check and the end
\* of its response write, and that one holds the mutex all the way: no two
\* batches run at once, and the response map is written by the holder only.
C33_OneAtATime ==
  /\ [](\A w \in AllWorkers :
         /\ InHandle(w) => mutex = w
         /\ InHandle(w) => \A v \in AllWorkers \ {w} : ~InHandle(v)
         /\ ~InHandle(w) => pipe[w] = <<>>)
  /\ [][store'.response # store.response =>
          \E w \in AllWorkers : mutex = w /\ pc[w] = "update"]_vars

\* one worker runs the pipeline of its batch while the other, an event in
\* hand, waits for the mutex
C33_Witness ==
  \E w, v \in AllWorkers :
    /\ w # v
    /\ pc[w] = "wait"
    /\ \E i \in 1..Len(pipe[w]) : pipe[w][i].pc = "mount"
    /\ pc[v] = "lock"
    /\ RequestFound(ev[v].obj)
    /\ ~ResponseFound(ev[v].obj)

(***************************************************************************)
(* Properties of msgPeek                                                   *)
(***************************************************************************)
\* the listener with msgPeek always getting its next turn
SpecListenerFair == SpecListener /\ WF_vars(MsgPeek)

\* the pages a buffer of msgPeek that holds a message of s bytes is made of
PagesFor(s) == s \div PageSize + 1

\* a step of the loop of msgPeek that peeked a pending message: it enlarges
\* the buffer or hands the message to msgRead
C34_PeekStep ==
  (lPc = "peek" /\ (lCap' # lCap \/ lPc' = "read")) =>
    \* the peek returns the message, cut at the length of the buffer
    /\ lPeekN' = Min(Len(Head(lQueue)), lCap)
    \* a peek that fills the buffer enlarges it by one page and peeks again
    /\ lPeekN' = lCap => lCap' = lCap + PageSize /\ lPc' = "peek"
    \* the first peek that does not fill the buffer ends the loop, with the
    \* whole message
    /\ lPeekN' < lCap =>
         /\ lPc' = "read"
         /\ lCap' = lCap
         /\ lPeekN' = Len(Head(lQueue))
         /\ lBuf' = Head(lQueue)
         /\ lCap = PagesFor(Len(Head(lQueue))) * PageSize

\* C34: msgPeek starts with a buffer of one page and enlarges it by one
\* page each time the peek fills the whole buffer; it stops at the first
\* peek that returns fewer bytes than the buffer holds and returns the
\* pending message whole, n its size s, from a buffer of s \div PageSize + 1
\* pages (k + 1 pages for a message of k pages); and with a message pending,
\* it terminates.
C34_PeekGrowsByPages ==
  /\ [](lPc = "peek" => lCap >= PageSize /\ lCap % PageSize = 0)
  /\ [][lPc = "idle" /\ lPc' = "peek" => lCap' = PageSize]_vars
  /\ [][C34_PeekStep]_vars
  /\ (lPc = "peek" /\ lQueue # <<>>) ~> (lPc # "peek")

\* msgPeek has returned a message of exactly one page from a buffer of two
C34_Witness ==
  /\ lPc = "read"
  /\ Len(lBuf) = PageSize
  /\ lPeekN = PageSize
  /\ lCap = 2 * PageSize
  /\ lBuf = Head(lQueue)

(***************************************************************************)
(* Properties of the batch: one device, one pipeline                       *)
(***************************************************************************)
\* pipeline i of worker w has passed the mount-conflict check and called
\* makeFS
Formats(w, i) ==
  /\ i \in 1..Len(pipe[w])
  /\ \E k \in 1..Len(pipe[w][i].calls) : pipe[w][i].calls[k] = "makeFS"

\* C35: within one batch of initDevices no device (major:minor) is formatted
\* by more than one pipeline, also when the request lists the major:minor
\* more than once.
C35_OnePipelinePerDevice ==
  \A w \in AllWorkers :
    \A i, j \in 1..Len(pipe[w]) :
      (Formats(w, i) /\ Formats(w, j)
         /\ pipe[w][i].majorMinor = pipe[w][j].majorMinor) => i = j

(***************************************************************************)
(* Properties of Handle: a written response stays                          *)
(***************************************************************************)
\* the response of this node is written in the InitRequest
Responded == store.exists /\ nodeID \in DOMAIN store.response

\* C36: once the InitResult of the node is in the response map of the
\* InitRequest, no later Handle of the same request, also one whose event
\* carries the object as it was before the write, runs the device batch or
\* replaces the recorded result.
C36_InitializedOnce ==
  [][Responded =>
       /\ \A w \in AllWorkers :
            ~(pc[w] = "initDevices" /\ pc'[w] # "initDevices")
       /\ Responded'
       /\ store'.response[nodeID] = store.response[nodeID]]_vars

(***************************************************************************)
(* Properties of removeUnexpectedFinalizers among other writers            *)
(***************************************************************************)
\* removeUnexpectedFinalizers found the finalizer f stale: it met f on the
\* Drive it fetched and left it out of validFinalizers
DeterminedStale(f) == StringIn(kRead, f) /\ ~StringIn(kValid, f)

\* C37: the Update of removeUnexpectedFinalizers drops no finalizer another
\* writer added to the Drive after removeUnexpectedFinalizers read it: the
\* finalizers it writes hold every finalizer of the version it updates,
\* except those it found stale.
C37_KeepsAddedFinalizers ==
  [][(kPc = "set_update" /\ kPc' = "capacity") =>
       \A i \in 1..Len(kGot.finalizers) :
         \/ StringIn(kDrive'.finalizers, kGot.finalizers[i])
         \/ DeterminedStale(kGot.finalizers[i])]_vars

(***************************************************************************)
(* Properties of fixDriveForVolume                                         *)
(***************************************************************************)
\* the finalizers and the capacities of two Drives are the same
SameLedger(a, b) ==
  /\ a.finalizers = b.finalizers
  /\ a.free = b.free
  /\ a.allocated = b.allocated

\* the step of fixDriveForVolume on the Drive of the model
C38_FixStep ==
  (sPc = "fix" /\ sPc' = "volume" /\ sTarget = ThisDrive) =>
    LET finalizer == VolumeFinalizer(sVol.name)
        size == sVol.capacity
    IN /\ StringIn(kDrive.finalizers, finalizer) => SameLedger(kDrive', kDrive)
       /\ ~StringIn(kDrive.finalizers, finalizer) =>
            /\ kDrive'.finalizers = Append(kDrive.finalizers, finalizer)
            /\ kDrive'.free = kDrive.free - size
            /\ kDrive'.allocated = kDrive.allocated + size
       /\ kDrive'.free + kDrive'.allocated = kDrive.free + kDrive.allocated
       /\ StringIn(kDrive'.finalizers, finalizer)
       \* run once more on the Drive it has written
       /\ SameLedger(fixDriveForVolume(kDrive', sVol.name, size), kDrive')

SomeReturned == \E c \in Callers : iFound[c] # <<>>

\* C39: for any number of sequential or concurrent calls of client.Init the
\* initialization body runs exactly once, and every call that has returned
\* finds the drive client and the volume client initialized.
C39_InitOnce ==
  /\ iBodies <= 1
  /\ SomeReturned => iBodies = 1
  /\ \A c \in Callers :
       \A k \in 1..Len(iFound[c]) : iFound[c][k].drive /\ iFound[c][k].volume

\* the first half of it: the body runs once and no more
C39_BodyOnce ==
  /\ iBodies <= 1
  /\ SomeReturned => iBodies = 1
  /\ iBodies = 1 <=> initialized # 0

(***************************************************************************)
(* Properties of the node handler                                          *)
(***************************************************************************)
\* Handle starts a Sync
SyncStarts == nPc = "idle" /\ nPc' = "probe"

\* a Sync returns without an error
SyncSucceeds == nPc \in {"get", "update"} /\ nPc' = "idle" /\ nRet'.err = Nil

\* the refresh of the Node is requested
RefreshRequested == nNode.exists /\ nNode.refresh

\* an event that makes Handle run Sync is queued, or Handle is at work
SyncPending == nPc # "idle" \/ \E e \in nQueue : RunsSync(e)

=============================================================================
